---- MODULE Spec2Model ----
(***************************************************************************)
(* Model of the electricity-loss simulator of gram-meter                   *)
(* (backend/distribution): the reading model and its classifier, the       *)
(* simulator (scenario synthesis, create_reading, alert creation, snapshot *)
(* and historical batches), the readings/alerts/simulator API and the      *)
(* alert lifecycle.                                                        *)
(*                                                                         *)
(* Units.  Decimal columns are integers in units of their last decimal     *)
(* place: voltages and currents in 1/100 (decimal_places=2), power and     *)
(* energy in 1/1000 (decimal_places=3).  Percentages and the synthesizer's *)
(* intermediate floats are exact rationals [n, d] in lowest terms, so that *)
(* a comparison with a threshold is decided as the code decides it.        *)
(* Timestamps are whole hours.                                             *)
(***************************************************************************)
EXTENDS Integers, Sequences, FiniteSets, TLC

VARIABLES
    readings,   \* ElectricityReading table, in insertion order
    alerts,     \* LossAlert table, in insertion order
    clock,      \* timezone.now(), in hours
    batch,      \* the running simulate_all_houses / simulate_historical_data call
    response,   \* outcome of the last simulator call that ended
    calls,      \* number of simulator calls begun
    random,     \* a draw of random.random() given to _select_scenario
    selected,   \* the scenario _select_scenario returned for it
    workers,    \* the cycles run by parallel workers, each in its transaction
    twilio,     \* the TwilioService constructed, its last send and result
    synth,      \* house, scenario and draws of a generate_sample_reading call
    requests,   \* the alert instance each acknowledge / resolve request has loaded
    live        \* the live generator script: its energy counter and what it stored

vars == <<readings, alerts, clock, batch, response, calls, random, selected,
          workers, twilio, synth, requests, live>>

None == "None"

\* An optional value that is not a string (a timestamp, a list): Nothing or Some(x).
Nothing == <<>>
Some(x) == <<x>>

-----------------------------------------------------------------------------
(* Exact arithmetic for Python's float / Decimal expressions.              *)

Abs(x) == IF x < 0 THEN -x ELSE x

RECURSIVE GCD(_, _)
GCD(a, b) == IF b = 0 THEN a ELSE GCD(b, a % b)

\* n/d in lowest terms with a positive denominator (d # 0).
Frac(n, d) ==
    LET g == GCD(Abs(n), Abs(d))
        s == IF d < 0 THEN -1 ELSE 1
    IN  [n |-> s * (n \div g), d |-> s * (d \div g)]

RInt(k) == [n |-> k, d |-> 1]

\* a * b, reduced crosswise before multiplying.
RMul(a, b) ==
    LET g1 == GCD(Abs(a.n), b.d)
        g2 == GCD(Abs(b.n), a.d)
    IN  Frac((a.n \div g1) * (b.n \div g2), (a.d \div g2) * (b.d \div g1))

\* a / b (b # 0).
RDiv(a, b) == RMul(a, IF b.n < 0 THEN [n |-> -b.d, d |-> -b.n] ELSE [n |-> b.d, d |-> b.n])

RSub(a, b) ==
    LET g == GCD(a.d, b.d)
    IN  Frac(a.n * (b.d \div g) - b.n * (a.d \div g), (a.d \div g) * b.d)

RAdd(a, b) == RSub(a, [n |-> -b.n, d |-> b.d])

RGt(a, k) == a.n > k * a.d

\* The integer nearest to y, ties to even.
round_half_even(y) ==
    LET q == y.n \div y.d
        r == y.n - q * y.d
    IN  IF 2 * r < y.d THEN q
        ELSE IF 2 * r > y.d THEN q + 1
        ELSE IF q % 2 = 0 THEN q ELSE q + 1

\* Python round(x, places) followed by Decimal(str(...)): the nearest multiple of
\* 1/scale, ties to even, as an integer count of 1/scale.
Round(x, scale) == round_half_even(RMul(x, RInt(scale)))

-----------------------------------------------------------------------------
(* IEEE-754 doubles near the hundredths, for the probabilities that           *)
(* _select_scenario adds up.  [c, e] is the number c/100 + e * u with         *)
(* u = 2^-58 / 25, so that c/100 = c * 2^56 * u and every double between      *)
(* 2^-6 and 2 is a whole number of u; e stays far below 2^56.                 *)

RECURSIVE PowMod(_, _, _)
PowMod(b, k, m) == IF k = 0 THEN 1 % m ELSE (b * PowMod(b, k - 1, m)) % m

\* The spacing of the doubles around x, in u: 2^-52 from 1 on, 2^-53 below 1,
\* 2^-54 below 0.5, ... 2^-58 below 0.03125.
FloatSpacing(x) ==
    IF x.c > 100 \/ (x.c = 100 /\ x.e >= 0) THEN 1600
    ELSE IF x.c > 50 \/ (x.c = 50 /\ x.e >= 0) THEN 800
    ELSE IF x.c > 25 \/ (x.c = 25 /\ x.e >= 0) THEN 400
    ELSE IF x.c >= 13 THEN 200
    ELSE IF x.c >= 7 THEN 100
    ELSE IF x.c >= 4 THEN 50
    ELSE 25

\* x in u, modulo m (m divides 3200).
FloatMod(x, m) == (x.c * PowMod(2, 56, 3200) + x.e) % m

\* The double nearest to x, ties to the even multiple of the spacing.
float_round(x) ==
    LET S == FloatSpacing(x)
        r == FloatMod(x, S)
        lower == [c |-> x.c, e |-> x.e - r]
        upper == [c |-> x.c, e |-> x.e - r + S]
    IN  IF 2 * r < S THEN lower
        ELSE IF 2 * r > S THEN upper
        ELSE IF FloatMod(lower, 2 * S) = 0 THEN lower ELSE upper

\* The double a literal k/100 denotes, and the double a + b evaluates to.
float_literal(k) == float_round([c |-> k, e |-> 0])
float_add(a, b) == float_round([c |-> a.c + b.c, e |-> a.e + b.e])

\* a <= b
float_le(a, b) == a.c < b.c \/ (a.c = b.c /\ a.e <= b.e)
float_lt(a, b) == a.c < b.c \/ (a.c = b.c /\ a.e < b.e)

-----------------------------------------------------------------------------
(* ElectricityReading: thresholds, save() and _update_status().            *)

VoltScale == 100        \* voltage columns: decimal_places = 2
PowerScale == 1000      \* power and energy columns: decimal_places = 3

NORMAL_LOSS_THRESHOLD == 5
THEFT_THRESHOLD == 15
LOW_VOLTAGE_THRESHOLD == 207
HIGH_VOLTAGE_THRESHOLD == 253

ReadingStatus ==
    {"normal", "low_voltage", "high_voltage", "loss_detected", "theft_suspected",
     "equipment_fault"}

\* The first branch is taken when the loss rules are tried before the voltage rules.
_update_status_loss_first(self) ==
    IF RGt(self.power_loss_percentage, THEFT_THRESHOLD)
    THEN [self EXCEPT !.status = "theft_suspected", !.is_anomaly = TRUE]
    ELSE IF RGt(self.power_loss_percentage, NORMAL_LOSS_THRESHOLD)
    THEN [self EXCEPT !.status = "loss_detected", !.is_anomaly = TRUE]
    ELSE IF self.voltage_received < LOW_VOLTAGE_THRESHOLD * VoltScale
    THEN [self EXCEPT !.status = "low_voltage", !.is_anomaly = TRUE]
    ELSE IF self.voltage_received > HIGH_VOLTAGE_THRESHOLD * VoltScale
    THEN [self EXCEPT !.status = "high_voltage", !.is_anomaly = TRUE]
    ELSE [self EXCEPT !.status = "normal", !.is_anomaly = FALSE]

_update_status(self) ==
    IF self.voltage_received < LOW_VOLTAGE_THRESHOLD * VoltScale
    THEN [self EXCEPT !.status = "low_voltage", !.is_anomaly = TRUE]
    ELSE IF self.voltage_received > HIGH_VOLTAGE_THRESHOLD * VoltScale
    THEN [self EXCEPT !.status = "high_voltage", !.is_anomaly = TRUE]
    ELSE IF RGt(self.power_loss_percentage, THEFT_THRESHOLD)
    THEN [self EXCEPT !.status = "theft_suspected", !.is_anomaly = TRUE]
    ELSE IF RGt(self.power_loss_percentage, NORMAL_LOSS_THRESHOLD)
    THEN [self EXCEPT !.status = "loss_detected", !.is_anomaly = TRUE]
    ELSE [self EXCEPT !.status = "normal", !.is_anomaly = FALSE]

\* ElectricityReading.save(): the losses, then the status, then the row.  A
\* percentage is assigned only when the sent value is positive; otherwise the
\* instance keeps the value it carried.  (loss / sent) * 100 is a Decimal
\* quotient to 28 digits, which no threshold comparison can tell from the exact
\* quotient for columns of at most 12 digits.
save(self) ==
    LET voltage_loss == self.voltage_sent - self.voltage_received
        power_loss_kw == self.power_sent_kw - self.power_received_kw
    IN  _update_status(
          [self EXCEPT
             !.voltage_loss = voltage_loss,
             !.voltage_loss_percentage =
                 IF self.voltage_sent > 0
                 THEN Frac(voltage_loss * 100, self.voltage_sent)
                 ELSE @,
             !.power_loss_kw = power_loss_kw,
             !.power_loss_percentage =
                 IF self.power_sent_kw > 0
                 THEN Frac(power_loss_kw * 100, self.power_sent_kw)
                 ELSE @,
             !.energy_loss_kwh = self.energy_sent_kwh - self.energy_received_kwh])

\* ElectricityReading(**kwargs): the fields a caller gives over the column defaults.
\* raw: the sent/received fields; derived: what the caller supplied for the
\* derived columns (DefaultDerived when it supplied none).
DefaultDerived ==
    [voltage_loss |-> 0, voltage_loss_percentage |-> RInt(0),
     power_loss_kw |-> 0, power_loss_percentage |-> RInt(0),
     energy_loss_kwh |-> 0, status |-> "normal", is_anomaly |-> FALSE]

ElectricityReading(id, house, transformer, raw, derived, timestamp) ==
    [id |-> id, house |-> house, transformer |-> transformer,
     voltage_sent |-> raw.voltage_sent,
     voltage_received |-> raw.voltage_received,
     current_sent |-> raw.current_sent,
     current_received |-> raw.current_received,
     power_sent_kw |-> raw.power_sent_kw,
     power_received_kw |-> raw.power_received_kw,
     energy_sent_kwh |-> raw.energy_sent_kwh,
     energy_received_kwh |-> raw.energy_received_kwh,
     voltage_loss |-> derived.voltage_loss,
     voltage_loss_percentage |-> derived.voltage_loss_percentage,
     power_loss_kw |-> derived.power_loss_kw,
     power_loss_percentage |-> derived.power_loss_percentage,
     energy_loss_kwh |-> derived.energy_loss_kwh,
     status |-> derived.status,
     is_anomaly |-> derived.is_anomaly,
     reading_timestamp |-> timestamp]

-----------------------------------------------------------------------------
(* Topology (Company > District > Village > Transformer > House), which the *)
(* simulator only reads.  Houses are listed in consumer_id order, the order *)
(* of House.Meta.ordering and so of every House queryset.                   *)

Houses == <<"h1", "h2", "h3", "h4", "h5", "h6", "h7">>
HouseSet == {Houses[i] : i \in 1..Len(Houses)}
Transformers == {"t1", "t2", "t3", "t4", "t5", "t6"}
Villages == {"v1", "v2", "v3", "v4"}
Districts == {"d1", "d2", "d3"}
Companies == {"c1", "c2"}

\* House.transformer
house_transformer(h) ==
    CASE h = "h1" -> "t1" [] h = "h2" -> "t1" [] h = "h6" -> "t1"
      [] h = "h3" -> "t2" [] h = "h4" -> "t3" [] h = "h5" -> "t4"
      [] h = "h7" -> "t6"

\* House.is_active and House.connection_status
is_active(h) == h \notin {"h6", "h7"}
connection_status(h) == IF h = "h2" THEN "suspended" ELSE "active"

\* House.connected_load_kw (column default 2.0), in 1/100 kW
connected_load_kw(h) == 200

\* Transformer.village, Village.district, District.company
transformer_village(t) ==
    CASE t = "t1" -> "v1" [] t = "t2" -> "v2" [] t = "t3" -> "v3"
      [] t = "t4" -> "v4" [] t = "t5" -> "v4" [] t = "t6" -> "v4"
village_district(v) ==
    CASE v = "v1" -> "d1" [] v = "v2" -> "d1" [] v = "v3" -> "d2" [] v = "v4" -> "d3"
district_company(d) == IF d = "d3" THEN "c2" ELSE "c1"

\* Transformer.output_voltage, in 1/100 V: a column without validators, so zero
\* and negative values are storable.
output_voltage(t) ==
    CASE t = "t1" -> 23000 [] t = "t2" -> 0 [] t = "t3" -> 25000
      [] t = "t4" -> -23000 [] t = "t5" -> 23000 [] t = "t6" -> 23000

\* transformer.houses.count()
houses_count(t) == Cardinality({h \in HouseSet : house_transformer(h) = t})

-----------------------------------------------------------------------------
(* ElectricitySimulator: scenario selection and synthesis.  Every random    *)
(* draw of the code is an input: rand (random.random(), in 1/100), dist     *)
(* (randint(20, 100)), loss, v, c and power_factor (random.uniform).        *)

SCENARIOS ==
    << <<"normal", 70>>, <<"low_voltage", 8>>, <<"high_loss", 10>>,
       <<"theft", 5>>, <<"equipment_fault", 4>>, <<"line_fault", 3>> >>

\* The loop of _select_scenario with the test rand < cumulative.
RECURSIVE select_from_strict(_, _, _)
select_from_strict(rand, i, cumulative) ==
    IF i > Len(SCENARIOS) THEN "normal"
    ELSE IF float_lt(rand, float_add(cumulative, float_literal(SCENARIOS[i][2])))
    THEN SCENARIOS[i][1]
    ELSE select_from_strict(rand, i + 1,
                            float_add(cumulative, float_literal(SCENARIOS[i][2])))

_select_scenario_strict(rand) == select_from_strict(rand, 1, [c |-> 0, e |-> 0])

\* The loop of _select_scenario from entry i on: cumulative += probability, then
\* rand <= cumulative, in doubles; 'normal' when the table is exhausted.
RECURSIVE select_from(_, _, _)
select_from(rand, i, cumulative) ==
    IF i > Len(SCENARIOS) THEN "normal"
    ELSE IF float_le(rand, float_add(cumulative, float_literal(SCENARIOS[i][2])))
    THEN SCENARIOS[i][1]
    ELSE select_from(rand, i + 1,
                     float_add(cumulative, float_literal(SCENARIOS[i][2])))

\* _select_scenario() for the draw rand of random.random()
_select_scenario(rand) == select_from(rand, 1, [c |-> 0, e |-> 0])

\* scenario_values with the voltage and current factors of high_loss exchanged.
scenario_values_swapped(scenario, voltage_sent, base_current, distance_loss_factor, draw) ==
    CASE scenario = "low_voltage" ->
           [voltage_received |-> RMul(voltage_sent, RSub(RInt(1), draw.loss)),
            current_received |-> RMul(base_current, Frac(105, 100)),
            status |-> "low_voltage"]
      [] scenario = "high_loss" ->
           [voltage_received |->
                RMul(voltage_sent, RSub(RInt(1), RMul(draw.loss, Frac(6, 10)))),
            current_received |->
                RMul(base_current, RSub(RInt(1), RMul(draw.loss, Frac(4, 10)))),
            status |-> "loss_detected"]
      [] scenario = "theft" ->
           [voltage_received |-> RMul(voltage_sent, RSub(RInt(1), draw.v)),
            current_received |-> RMul(base_current, RSub(RInt(1), draw.loss)),
            status |-> "theft_suspected"]
      [] scenario = "equipment_fault" ->
           [voltage_received |-> RMul(voltage_sent, draw.v),
            current_received |-> RMul(base_current, draw.c),
            status |-> "equipment_fault"]
      [] scenario = "line_fault" ->
           LET loss_pct == RMul(draw.loss, distance_loss_factor)
           IN  [voltage_received |->
                    RMul(voltage_sent, RSub(RInt(1), RMul(loss_pct, Frac(6, 10)))),
                current_received |->
                    RMul(base_current, RSub(RInt(1), RMul(loss_pct, Frac(4, 10)))),
                status |-> "loss_detected"]
      [] OTHER ->   \* 'normal', and the default branch of an unknown label
           [voltage_received |->
                RMul(voltage_sent, RSub(RInt(1), RMul(draw.loss, Frac(3, 10)))),
            current_received |->
                RMul(base_current, RSub(RInt(1), RMul(draw.loss, Frac(1, 10)))),
            status |-> "normal"]

\* The scenario branch of _apply_scenario: the received voltage and current (as
\* floats) and the scenario's expected status.
scenario_values(scenario, voltage_sent, base_current, distance_loss_factor, draw) ==
    CASE scenario = "low_voltage" ->
           [voltage_received |-> RMul(voltage_sent, RSub(RInt(1), draw.loss)),
            current_received |-> RMul(base_current, Frac(105, 100)),
            status |-> "low_voltage"]
      [] scenario = "high_loss" ->
           [voltage_received |->
                RMul(voltage_sent, RSub(RInt(1), RMul(draw.loss, Frac(4, 10)))),
            current_received |->
                RMul(base_current, RSub(RInt(1), RMul(draw.loss, Frac(6, 10)))),
            status |-> "loss_detected"]
      [] scenario = "theft" ->
           [voltage_received |-> RMul(voltage_sent, RSub(RInt(1), draw.v)),
            current_received |-> RMul(base_current, RSub(RInt(1), draw.loss)),
            status |-> "theft_suspected"]
      [] scenario = "equipment_fault" ->
           [voltage_received |-> RMul(voltage_sent, draw.v),
            current_received |-> RMul(base_current, draw.c),
            status |-> "equipment_fault"]
      [] scenario = "line_fault" ->
           LET loss_pct == RMul(draw.loss, distance_loss_factor)
           IN  [voltage_received |->
                    RMul(voltage_sent, RSub(RInt(1), RMul(loss_pct, Frac(6, 10)))),
                current_received |->
                    RMul(base_current, RSub(RInt(1), RMul(loss_pct, Frac(4, 10)))),
                status |-> "loss_detected"]
      [] OTHER ->   \* 'normal', and the default branch of an unknown label
           [voltage_received |->
                RMul(voltage_sent, RSub(RInt(1), RMul(draw.loss, Frac(3, 10)))),
            current_received |->
                RMul(base_current, RSub(RInt(1), RMul(draw.loss, Frac(1, 10)))),
            status |-> "normal"]

\* The tail of _apply_scenario: the powers and the rounded reading_data, from the
\* values sv of the scenario branch.
reading_data_of(scenario, voltage_sent, base_current, house, draw, sv) ==
    LET power_sent ==
            RDiv(RMul(RMul(voltage_sent, base_current), draw.power_factor), RInt(1000))
        power_received ==
            RDiv(RMul(RMul(sv.voltage_received, sv.current_received), draw.power_factor),
                 RInt(1000))
    IN  [house |-> house,
         transformer |-> house_transformer(house),
         voltage_sent |-> Round(voltage_sent, VoltScale),
         voltage_received |-> Round(sv.voltage_received, VoltScale),
         current_sent |-> Round(base_current, VoltScale),
         current_received |-> Round(sv.current_received, VoltScale),
         power_sent_kw |-> Round(power_sent, PowerScale),
         power_received_kw |-> Round(power_received, PowerScale),
         energy_sent_kwh |-> Round(power_sent, PowerScale),
         energy_received_kwh |-> Round(power_received, PowerScale),
         scenario |-> scenario,
         expected_status |-> sv.status]

_apply_scenario(scenario, voltage_sent, base_current, house, draw) ==
    LET distance == houses_count(house_transformer(house)) * 50 + draw.dist
        distance_loss_factor == RAdd(RInt(1), Frac(distance, 10000))
    IN  reading_data_of(scenario, voltage_sent, base_current, house, draw,
            scenario_values(scenario, voltage_sent, base_current,
                            distance_loss_factor, draw))

ZeroDivisionError == "ZeroDivisionError"

\* generate_reading(house, scenario): scenario = None selects one from the draw.
\* float(load) * 1000 / voltage_sent raises ZeroDivisionError when the
\* transformer's output_voltage is 0.  The result is the exception raised, or
\* the reading_data returned.
generate_reading(house, scenario, draw) ==
    LET sc == IF scenario = None THEN _select_scenario(draw.rand) ELSE scenario
        voltage_sent == Frac(output_voltage(house_transformer(house)), VoltScale)
    IN  IF voltage_sent.n = 0
        THEN [raised |-> ZeroDivisionError, reading_data |-> None]
        ELSE [raised |-> None,
              reading_data |->
                  _apply_scenario(sc, voltage_sent,
                      RDiv(Frac(connected_load_kw(house) * 1000, 100), voltage_sent),
                      house, draw)]

-----------------------------------------------------------------------------
(* LossAlert and the simulator's alert creation.                           *)

AlertStatus == {"active", "acknowledged", "investigating", "resolved", "false_alarm"}

\* The loss test comes after the status tests.
_determine_alert_type_status_first(reading) ==
    IF reading.status = "theft_suspected" THEN <<"theft_suspected", "critical">>
    ELSE IF reading.status = "low_voltage" THEN <<"voltage_drop", "warning">>
    ELSE IF reading.status = "high_voltage" THEN <<"equipment_fault", "warning">>
    ELSE IF reading.status = "equipment_fault" THEN <<"equipment_fault", "critical">>
    ELSE IF RGt(reading.power_loss_percentage, 15) THEN <<"theft_suspected", "critical">>
    ELSE IF RGt(reading.power_loss_percentage, 10) THEN <<"power_loss", "warning">>
    ELSE <<"power_loss", "info">>

\* float(power_loss_percentage) against 15 and 10: a percentage of columns of at
\* most 10 digits differs from either by more than a float's resolution or not at all.
_determine_alert_type(reading) ==
    IF reading.status = "theft_suspected" \/ RGt(reading.power_loss_percentage, 15)
    THEN <<"theft_suspected", "critical">>
    ELSE IF reading.status = "low_voltage" THEN <<"voltage_drop", "warning">>
    ELSE IF reading.status = "high_voltage" THEN <<"equipment_fault", "warning">>
    ELSE IF reading.status = "equipment_fault" THEN <<"equipment_fault", "critical">>
    ELSE IF RGt(reading.power_loss_percentage, 10) THEN <<"power_loss", "warning">>
    ELSE <<"power_loss", "info">>

\* A tariff of 7.05 per kWh.
rate_per_kwh_transposed == Frac(705, 100)

\* ElectricitySimulator.rate_per_kwh, Decimal('7.50')
rate_per_kwh == Frac(750, 100)

\* _create_alert with the two loss percentages exchanged.
_create_alert_swapped(id, reading) ==
    LET transformer == reading.transformer
        village == transformer_village(transformer)
        district == village_district(village)
        ts == _determine_alert_type(reading)
        power_loss_daily == RMul(Frac(reading.power_loss_kw, PowerScale), RInt(24))
        estimated_loss == RMul(RMul(power_loss_daily, rate_per_kwh), RInt(30))
    IN  [id |-> id, reading |-> reading.id, house |-> reading.house,
         transformer |-> transformer, village |-> village, district |-> district,
         alert_type |-> ts[1], severity |-> ts[2], status |-> "active",
         voltage_loss |-> reading.voltage_loss,
         voltage_loss_percentage |-> reading.power_loss_percentage,
         power_loss_kw |-> reading.power_loss_kw,
         power_loss_percentage |-> reading.voltage_loss_percentage,
         estimated_financial_loss |-> Round(estimated_loss, 100),
         acknowledged_by |-> None, acknowledged_at |-> Nothing,
         resolved_by |-> None, resolved_at |-> Nothing, resolution_notes |-> "",
         updated_at |-> clock]

\* The row _create_alert inserts (title and description, rendered from the same
\* reading, are left out).  estimated_financial_loss is in 1/100 INR: the column
\* has two decimal places and the value is quantized to them on insert.  The
\* daily loss passes through float(power_loss_kw) * 24 and str(): the double
\* differs from the exact product, a multiple of 0.001, by a relative 2^-52 at
\* most, which the quantization to 0.01 of the monthly product removes.
_create_alert(id, reading) ==
    LET transformer == reading.transformer
        village == transformer_village(transformer)
        district == village_district(village)
        ts == _determine_alert_type(reading)
        power_loss_daily == RMul(Frac(reading.power_loss_kw, PowerScale), RInt(24))
        estimated_loss == RMul(RMul(power_loss_daily, rate_per_kwh), RInt(30))
    IN  [id |-> id, reading |-> reading.id, house |-> reading.house,
         transformer |-> transformer, village |-> village, district |-> district,
         alert_type |-> ts[1], severity |-> ts[2], status |-> "active",
         voltage_loss |-> reading.voltage_loss,
         voltage_loss_percentage |-> reading.voltage_loss_percentage,
         power_loss_kw |-> reading.power_loss_kw,
         power_loss_percentage |-> reading.power_loss_percentage,
         estimated_financial_loss |-> Round(estimated_loss, 100),
         acknowledged_by |-> None, acknowledged_at |-> Nothing,
         resolved_by |-> None, resolved_at |-> Nothing, resolution_notes |-> "",
         updated_at |-> clock]

-----------------------------------------------------------------------------
(* Bounds and inputs.                                                      *)

MaxReadings == 4        \* rows a simulator batch may bring the table to
MaxHours == 2           \* hours of a historical backfill
MaxClock == 1           \* hours the clock advances
MaxSaved == 1           \* rows saved through the admin forms
MaxSampled == 1         \* rows created by generate_sample_reading
MaxPosted == 1          \* rows the table may hold after a POST to the readings API
MaxCalls == 1           \* calls of the simulator's batch entry points
MaxAlertsPosted == 1    \* rows the alert table may hold after a POST to the alerts API
MaxWorkers == 2         \* parallel workers
MaxSent == 2            \* messages the Twilio client has accepted
MaxRequests == 2        \* acknowledge / resolve requests in flight
MaxLive == 2            \* readings the live generator script stores

NoDraw == RInt(0)

\* One tick's random draws.  Components a scenario does not draw are NoDraw;
\* the draw of random.random() is the double nearest to rand / 100.
TickDraw(rand, loss, v, c, dist) ==
    [rand |-> float_literal(rand), loss |-> loss, v |-> v, c |-> c, dist |-> dist,
     power_factor |-> Frac(90, 100)]

\* The draws tried for a scenario, within the ranges of its random.uniform calls;
\* rand is a draw of random.random() that selects the scenario.
ScenarioDraws(scenario) ==
    CASE scenario = "low_voltage" ->
           {TickDraw(75, Frac(l, 100), NoDraw, NoDraw, 50) : l \in {10, 15}}
      [] scenario = "high_loss" ->
           {TickDraw(85, Frac(l, 100), NoDraw, NoDraw, 50) : l \in {8, 14}}
      [] scenario = "theft" ->
           {TickDraw(90, Frac(35, 100), Frac(2, 100), NoDraw, 50),
            TickDraw(90, Frac(15, 100), Frac(5, 100), NoDraw, 50)}
      [] scenario = "equipment_fault" ->
           {TickDraw(95, Frac(5, 100), Frac(vc[1], 1000), Frac(vc[2], 1000), 50) :
               vc \in {<<850, 700>>, <<950, 800>>, <<950, 980>>, <<985, 995>>,
                      <<1000, 1000>>, <<1050, 1000>>}}
      [] scenario = "line_fault" ->
           {TickDraw(99, Frac(25, 100), NoDraw, NoDraw, 100),
            TickDraw(99, Frac(10, 100), NoDraw, NoDraw, 100)}
      [] OTHER ->
           {TickDraw(50, Frac(l, 100), NoDraw, NoDraw, 50) : l \in {2, 5}}

TickDraws == UNION {ScenarioDraws(SCENARIOS[i][1]) : i \in 1..Len(SCENARIOS)}

\* The draws tried in a batch: a normal tick, a high-loss tick, an
\* equipment-fault tick, and an equipment-fault tick whose voltage and current
\* factors (0.985, 0.995) are those of the normal tick.
BatchDraws ==
    {TickDraw(50, Frac(5, 100), NoDraw, NoDraw, 50),
     TickDraw(85, Frac(14, 100), NoDraw, NoDraw, 50),
     TickDraw(95, Frac(5, 100), Frac(85, 100), Frac(70, 100), 50),
     TickDraw(95, Frac(5, 100), Frac(985, 1000), Frac(995, 1000), 50)}

SampleScenarios ==
    {"normal", "low_voltage", "high_loss", "theft", "equipment_fault", "line_fault",
     "unknown"}

\* generate_reading over the inputs tried, tabulated once (@@ makes the table
\* explicit): <<house, scenario, draw>> with scenario = None for the ticks of a
\* batch.
generated_readings ==
    [x \in (HouseSet \X {None} \X TickDraws)
           \cup {y \in HouseSet \X SampleScenarios \X TickDraws :
                    y[3] \in ScenarioDraws(y[2])}
       |-> generate_reading(x[1], x[2], x[3])] @@ <<>>

\* Primary keys (uuid4 in the code): fresh, here the next unused number.
RECURSIVE MaxId(_)
MaxId(rows) ==
    IF rows = <<>> THEN 0
    ELSE LET m == MaxId(Tail(rows)) IN IF Head(rows).id > m THEN Head(rows).id ELSE m

\* create_reading taking the synthesizer's expected_status for the status.
create_reading_expected_status(rs, as, now, house, scenario, timestamp, draw, ok) ==
    IF generated_readings[<<house, scenario, draw>>].raised # None
    THEN [readings |-> rs, alerts |-> as, reading |-> None,
          raised |-> generated_readings[<<house, scenario, draw>>].raised]
    ELSE
      LET reading ==
              [save(ElectricityReading(MaxId(rs) + 1, house, house_transformer(house),
                        generated_readings[<<house, scenario, draw>>].reading_data,
                        DefaultDerived,
                        IF timestamp = Nothing THEN now ELSE timestamp[1]))
                 EXCEPT !.status =
                          generated_readings[<<house, scenario, draw>>]
                              .reading_data.expected_status,
                        !.is_anomaly =
                          generated_readings[<<house, scenario, draw>>]
                              .reading_data.expected_status # "normal"]
      IN  [readings |-> Append(rs, reading),
           alerts |-> IF reading.is_anomaly /\ ok
                      THEN Append(as, _create_alert(MaxId(as) + 1, reading))
                      ELSE as,
           reading |-> reading, raised |-> None]

\* The energy counters of the house's readings in the store, summed.
RECURSIVE energy_so_far(_, _, _)
energy_so_far(rs, house, field) ==
    IF rs = <<>> THEN 0
    ELSE (IF Head(rs).house = house THEN Head(rs)[field] ELSE 0)
         + energy_so_far(Tail(rs), house, field)

\* create_reading with energy counters that run on from the house's earlier
\* readings.
create_reading_accumulating(rs, as, now, house, scenario, timestamp, draw, ok) ==
    IF generated_readings[<<house, scenario, draw>>].raised # None
    THEN [readings |-> rs, alerts |-> as, reading |-> None,
          raised |-> generated_readings[<<house, scenario, draw>>].raised]
    ELSE
      LET reading ==
              save(ElectricityReading(MaxId(rs) + 1, house, house_transformer(house),
                       [generated_readings[<<house, scenario, draw>>].reading_data
                          EXCEPT !.energy_sent_kwh =
                                     @ + energy_so_far(rs, house, "energy_sent_kwh"),
                                 !.energy_received_kwh =
                                     @ + energy_so_far(rs, house, "energy_received_kwh")],
                       DefaultDerived,
                       IF timestamp = Nothing THEN now ELSE timestamp[1]))
      IN  IF ~reading.is_anomaly
          THEN [readings |-> Append(rs, reading), alerts |-> as,
                reading |-> reading, raised |-> None]
          ELSE IF ok
          THEN [readings |-> Append(rs, reading),
                alerts |-> Append(as, _create_alert(MaxId(as) + 1, reading)),
                reading |-> reading, raised |-> None]
          ELSE [readings |-> rs, alerts |-> as, reading |-> None,
                raised |-> "DatabaseError"]

\* create_reading with the alert of a house that already has one left out.
create_reading_dedup(rs, as, now, house, scenario, timestamp, draw, alert_insert_ok) ==
    IF generated_readings[<<house, scenario, draw>>].raised # None
    THEN [readings |-> rs, alerts |-> as, reading |-> None,
          raised |-> generated_readings[<<house, scenario, draw>>].raised]
    ELSE
      LET reading ==
              save(ElectricityReading(MaxId(rs) + 1, house, house_transformer(house),
                       generated_readings[<<house, scenario, draw>>].reading_data,
                       DefaultDerived,
                       IF timestamp = Nothing THEN now ELSE timestamp[1]))
      IN  IF ~reading.is_anomaly \/ \E j \in 1..Len(as) : as[j].house = house
          THEN [readings |-> Append(rs, reading), alerts |-> as,
                reading |-> reading, raised |-> None]
          ELSE IF alert_insert_ok
          THEN [readings |-> Append(rs, reading),
                alerts |-> Append(as, _create_alert(MaxId(as) + 1, reading)),
                reading |-> reading, raised |-> None]
          ELSE [readings |-> rs, alerts |-> as, reading |-> None,
                raised |-> "DatabaseError"]

\* @transaction.atomic create_reading(house, scenario, timestamp) on the tables
\* rs, as: the tables afterwards, the reading returned, or the exception raised
\* (then the transaction is rolled back and the tables are as before).
\* alert_insert_ok tells whether the store accepts the LossAlert row.
create_reading(rs, as, now, house, scenario, timestamp, draw, alert_insert_ok) ==
    IF generated_readings[<<house, scenario, draw>>].raised # None
    THEN [readings |-> rs, alerts |-> as, reading |-> None,
          raised |-> generated_readings[<<house, scenario, draw>>].raised]
    ELSE
      LET reading ==
              save(ElectricityReading(MaxId(rs) + 1, house, house_transformer(house),
                       generated_readings[<<house, scenario, draw>>].reading_data,
                       DefaultDerived,
                       IF timestamp = Nothing THEN now ELSE timestamp[1]))
      IN  IF ~reading.is_anomaly
          THEN [readings |-> Append(rs, reading), alerts |-> as,
                reading |-> reading, raised |-> None]
          ELSE IF alert_insert_ok
          THEN [readings |-> Append(rs, reading),
                alerts |-> Append(as, _create_alert(MaxId(as) + 1, reading)),
                reading |-> reading, raised |-> None]
          ELSE [readings |-> rs, alerts |-> as, reading |-> None,
                raised |-> "DatabaseError"]

-----------------------------------------------------------------------------
(* The simulator's batches.  A batch is one call of simulate_all_houses or  *)
(* simulate_historical_data; each step runs the next create_reading of its  *)
(* loop in that call's own transaction.                                     *)

\* base: the rows of the two tables when the call began, kept to count what
\* the call has persisted.
Base == [readings |-> Len(readings), alerts |-> Len(alerts)]

Idle ==
    [kind |-> "idle", filter |-> None, hours |-> 0, houses |-> <<>>, now |-> 0,
     queue |-> <<>>, out |-> <<>>, base |-> [readings |-> 0, alerts |-> 0]]

NoResponse ==
    [kind |-> "none", outcome |-> None, error |-> None, filter |-> None, hours |-> 0,
     houses |-> <<>>, now |-> 0, readings |-> <<>>]

NoFilter == [company |-> None, district |-> None, village |-> None, transformer |-> None]

\* House.objects.filter(is_active=True, connection_status='active')
eligible(h) == is_active(h) /\ connection_status(h) = "active"

\* The if/elif chain of simulate_all_houses: the most specific filter given.
in_filter(f, h) ==
    LET t == house_transformer(h)
        v == transformer_village(t)
        d == village_district(v)
    IN  IF f.transformer # None THEN t = f.transformer
        ELSE IF f.village # None THEN v = f.village
        ELSE IF f.district # None THEN d = f.district
        ELSE IF f.company # None THEN district_company(d) = f.company
        ELSE TRUE

\* Every house under the node, eligible or not.
filtered_houses_any(f) == SelectSeq(Houses, LAMBDA h : in_filter(f, h))

filtered_houses(f) == SelectSeq(Houses, LAMBDA h : eligible(h) /\ in_filter(f, h))

\* for hour in range(hours): for house in houses: (house, now - (hours - hour))
RECURSIVE historical_ticks(_, _, _, _)
historical_ticks(hours, houses, now, hour) ==
    IF hour >= hours THEN <<>>
    ELSE [i \in 1..Len(houses) |->
             [house |-> houses[i], timestamp |-> Some(now - (hours - hour))]]
         \o historical_ticks(hours, houses, now, hour + 1)

Returned(b) ==
    [kind |-> b.kind, outcome |-> "returned", error |-> None, filter |-> b.filter,
     hours |-> b.hours, houses |-> b.houses, now |-> b.now, readings |-> b.out]

Raised(b, e) ==
    [kind |-> b.kind, outcome |-> "raised", error |-> e, filter |-> b.filter,
     hours |-> b.hours, houses |-> b.houses, now |-> b.now, readings |-> <<>>]

\* Begin a call whose loop has the ticks of b.queue; a loop with no tick returns.
Begin(b) ==
    /\ batch.kind = "idle"
    /\ calls < MaxCalls
    /\ Len(readings) + Len(b.queue) <= MaxReadings
    /\ calls' = calls + 1
    /\ IF b.queue = <<>>
       THEN batch' = Idle /\ response' = Returned(b)
       ELSE batch' = b /\ UNCHANGED response
    /\ UNCHANGED <<readings, alerts, clock, random, selected, workers, twilio, synth, requests,
                   live>>

SnapshotFilters ==
    {NoFilter,
     [NoFilter EXCEPT !.transformer = "t1"],
     [NoFilter EXCEPT !.transformer = "t5"],
     [NoFilter EXCEPT !.transformer = "t6"],
     [NoFilter EXCEPT !.village = "v3"],
     [NoFilter EXCEPT !.district = "d1"],
     [NoFilter EXCEPT !.company = "c2"],
     [NoFilter EXCEPT !.company = "c2", !.transformer = "t3"]}

\* SimulatorAPIView.post -> simulator.simulate_all_houses(company, district,
\* village, transformer); every reading is stamped timezone.now() by its own
\* create_reading.
simulate_all_houses(f) ==
    LET houses == filtered_houses(f)
    IN  Begin([Idle EXCEPT !.kind = "snapshot", !.filter = f, !.houses = houses,
                           !.base = Base,
                           !.queue = [i \in 1..Len(houses) |->
                                        [house |-> houses[i], timestamp |-> Nothing]]])

HistoricalHouses ==
    {Nothing, Some(<<"h1", "h4">>), Some(<<"h4", "h5">>), Some(<<"h3", "h1">>),
     Some(<<"h1", "h1">>), Some(<<"h2">>)}

\* simulate_historical_data(hours, houses); houses = None (Nothing) takes the
\* eligible houses.
simulate_historical_data(hours, houses) ==
    LET hs == IF houses = Nothing THEN SelectSeq(Houses, eligible) ELSE houses[1]
    IN  Begin([Idle EXCEPT !.kind = "historical", !.hours = hours, !.houses = hs,
                           !.now = clock, !.base = Base,
                           !.queue = historical_ticks(hours, hs, clock, 0)])

\* One iteration of the batch loop.  An exception of create_reading leaves the
\* loop and the call (neither loop catches it); the last iteration returns.
\* res is the outcome of the iteration's create_reading, b the batch after it.
Tick(draw, alert_insert_ok) ==
    /\ batch.kind # "idle"
    /\ \E res \in {create_reading(readings, alerts, clock, Head(batch.queue).house, None,
                                  Head(batch.queue).timestamp, draw, alert_insert_ok)} :
          IF res.raised # None
          THEN /\ batch' = Idle
               /\ response' = Raised(batch, res.raised)
               /\ UNCHANGED <<readings, alerts>>
          ELSE /\ readings' = res.readings
               /\ alerts' = res.alerts
               /\ \E b \in {[batch EXCEPT !.queue = Tail(@),
                                           !.out = Append(@, res.reading.id)]} :
                     IF b.queue = <<>>
                     THEN batch' = Idle /\ response' = Returned(b)
                     ELSE batch' = b /\ UNCHANGED response
    /\ UNCHANGED <<clock, calls, random, selected, workers, twilio, synth, requests, live>>

\* sum(1 for r in readings if r.is_anomaly) over the list the call returned
anomalies(rs, ids) ==
    Cardinality({i \in 1..Len(ids) :
                    \E k \in 1..Len(rs) : rs[k].id = ids[i] /\ rs[k].is_anomaly})

\* A response that counts every returned reading as an anomaly.
post_counting_all(rs, resp) ==
    IF resp.outcome = "returned"
    THEN [status |-> "success", http |-> 200,
          readings_generated |-> Len(resp.readings),
          anomalies_detected |-> Len(resp.readings),
          alerts_created |-> Len(resp.readings)]
    ELSE [status |-> "error", http |-> 400, message |-> resp.error]

\* SimulatorAPIView.post: the Response built from what simulate_all_houses
\* returned (resp.readings) or raised (resp.error); rs is the readings table.
post(rs, resp) ==
    IF resp.outcome = "returned"
    THEN [status |-> "success", http |-> 200,
          readings_generated |-> Len(resp.readings),
          anomalies_detected |-> anomalies(rs, resp.readings),
          alerts_created |-> anomalies(rs, resp.readings)]
    ELSE [status |-> "error", http |-> 400, message |-> resp.error]

AdvanceClock ==
    /\ clock < MaxClock
    /\ clock' = clock + 1
    /\ UNCHANGED <<readings, alerts, batch, response, calls, random, selected, workers, twilio,
                   synth, requests, live>>

-----------------------------------------------------------------------------
(* The readings API, the admin forms and generate_sample_reading.           *)

Raw(vs, vr, ps, pr, es, er) ==
    [voltage_sent |-> vs, voltage_received |-> vr,
     current_sent |-> 0, current_received |-> 0,
     power_sent_kw |-> ps, power_received_kw |-> pr,
     energy_sent_kwh |-> es, energy_received_kwh |-> er]

ApiRaws ==
    {Raw(23000, 22500, 1800, 1750, 1800, 1750),     \* 2.8 % loss
     Raw(23000, 22500, 1800, 1400, 1800, 1400),     \* 22.2 % loss
     Raw(23000, 20000, 0, 0, 0, 0)}                 \* 200 V

\* ElectricityReadingViewSet.create (POST /readings/): the serializer takes the
\* raw columns, keeps the derived ones read-only, and saves the row.  Nothing on
\* this path creates a LossAlert.
ApiCreateReading(house, raw) ==
    /\ Len(readings) < MaxPosted
    /\ readings' =
           Append(readings,
                  save(ElectricityReading(MaxId(readings) + 1, house,
                           house_transformer(house), raw, DefaultDerived, clock)))
    /\ UNCHANGED <<alerts, clock, batch, response, calls, random, selected, workers, twilio,
                   synth, requests, live>>

\* The detail routes of ElectricityReadingViewSet (PUT, PATCH and DELETE of
\* /readings/<id>/): get_object() filters get_queryset(), which is sliced
\* ([:100]); QuerySet.filter raises TypeError on a sliced query and the
\* framework's get_object_or_404 answers 404.  The row is never reached.
DetailResponse(kind) ==
    [NoResponse EXCEPT !.kind = kind, !.outcome = "raised", !.error = "Http404"]

ApiUpdateReading(i, raw) ==
    /\ i \in 1..Len(readings)
    /\ response' = DetailResponse("update")
    /\ UNCHANGED <<readings, alerts, clock, batch, calls, random, selected, workers, twilio,
                   synth, requests, live>>

ApiDestroyReading(i) ==
    /\ i \in 1..Len(readings)
    /\ response' = DetailResponse("destroy")
    /\ UNCHANGED <<readings, alerts, clock, batch, calls, random, selected, workers, twilio,
                   synth, requests, live>>

\* generate_sample_reading(house, scenario) -> simulator.create_reading(house,
\* scenario); an exception leaves the tables as they were.
generate_sample_reading(house, scenario, draw, alert_insert_ok) ==
    /\ Len(readings) < MaxSampled
    /\ LET res == create_reading(readings, alerts, clock, house, scenario, Nothing,
                                 draw, alert_insert_ok)
       IN  readings' = res.readings /\ alerts' = res.alerts
    /\ UNCHANGED <<clock, batch, response, calls, random, selected, workers, twilio,
                   synth, requests, live>>

\* generate_sample_reading with the call's house, scenario and draws kept for
\* inspection; one call is followed.
SynthesizeSample(house, scenario, draw, alert_insert_ok) ==
    /\ synth = Nothing
    /\ LET res == create_reading(readings, alerts, clock, house, scenario, Nothing,
                                 draw, alert_insert_ok)
       IN  readings' = res.readings /\ alerts' = res.alerts
    /\ synth' = Some([house |-> house, scenario |-> scenario, draw |-> draw,
                      stored |-> Len(readings') > Len(readings),
                      reading |-> MaxId(readings')])
    /\ UNCHANGED <<clock, batch, response, calls, random, selected, workers, twilio, requests,
                   live>>

AdminVoltageSent == {0, 23000}
AdminVoltageReceived == {20699, 20700, 23000, 25300, 25301}
AdminPower ==
    {<<0, 0>>, <<10000, 8000>>, <<10000, 8499>>, <<10000, 8500>>, <<10000, 9499>>,
     <<10000, 9500>>, <<10000, 9600>>}
AdminEnergy == {<<1800, 1700>>}
AdminRaws ==
    {Raw(vs, vr, p[1], p[2], e[1], e[2]) :
        vs \in AdminVoltageSent, vr \in AdminVoltageReceived,
        p \in AdminPower, e \in AdminEnergy}

\* What the admin form posts for the derived columns, which it shows as editable.
AdminDerived ==
    {DefaultDerived,
     [voltage_loss |-> 123, voltage_loss_percentage |-> RInt(50),
      power_loss_kw |-> 456, power_loss_percentage |-> RInt(50),
      energy_loss_kwh |-> 7, status |-> "equipment_fault", is_anomaly |-> TRUE],
     [voltage_loss |-> 0, voltage_loss_percentage |-> RInt(0),
      power_loss_kw |-> 0, power_loss_percentage |-> RInt(10),
      energy_loss_kwh |-> 0, status |-> "theft_suspected", is_anomaly |-> FALSE]}

\* ElectricityReadingAdmin add form: ElectricityReading(**form fields).save()
AdminAddReading(raw, derived) ==
    /\ Len(readings) < MaxSaved
    /\ readings' =
           Append(readings,
                  save(ElectricityReading(MaxId(readings) + 1, "h1",
                           house_transformer("h1"), raw, derived, clock)))
    /\ UNCHANGED <<alerts, clock, batch, response, calls, random, selected, workers, twilio,
                   synth, requests, live>>

\* ElectricityReadingAdmin change form: every column of the row is set from the
\* form, then save().
AdminChangeReading(i, raw, derived) ==
    /\ i \in 1..Len(readings)
    /\ readings' =
           [readings EXCEPT ![i] =
               save(ElectricityReading(@.id, @.house, @.transformer, raw, derived,
                                       @.reading_timestamp))]
    /\ UNCHANGED <<alerts, clock, batch, response, calls, random, selected, workers, twilio,
                   synth, requests, live>>

-----------------------------------------------------------------------------
(* The alert lifecycle: LossAlert.acknowledge / resolve, reached through    *)
(* LossAlertViewSet's acknowledge and resolve actions by an authenticated   *)
(* user, and the viewset's PATCH of the writable status column.             *)

Users == {"u1", "u2"}
Notes == {"", "fixed"}

\* LossAlert.acknowledge(user); its save() refreshes updated_at (auto_now)
acknowledge(self, user) ==
    [self EXCEPT !.status = "acknowledged", !.acknowledged_by = user,
                 !.acknowledged_at = Some(clock), !.updated_at = clock]

\* LossAlert.resolve(user, notes); its save() refreshes updated_at (auto_now)
resolve(self, user, notes) ==
    [self EXCEPT !.status = "resolved", !.resolved_by = user, !.resolved_at = Some(clock),
                 !.resolution_notes = notes, !.updated_at = clock]

Acknowledge(i, user) ==
    /\ i \in 1..Len(alerts)
    /\ alerts' = [alerts EXCEPT ![i] = acknowledge(@, user)]
    /\ UNCHANGED <<readings, clock, batch, response, calls, random, selected, workers, twilio,
                   synth, requests, live>>

Resolve(i, user, notes) ==
    /\ i \in 1..Len(alerts)
    /\ alerts' = [alerts EXCEPT ![i] = resolve(@, user, notes)]
    /\ UNCHANGED <<readings, clock, batch, response, calls, random, selected, workers, twilio,
                   synth, requests, live>>

\* LossAlertViewSet.acknowledge and .resolve, statement by statement.  The
\* request loads the alert (alert = self.get_object()), and the model method
\* then sets its columns on that instance and calls save(), which writes every
\* column of the instance to the row.
GetObject(q, i, method) ==
    /\ requests[q] = Nothing
    /\ i \in 1..Len(alerts)
    /\ requests' = [requests EXCEPT ![q] = Some([method |-> method, alert |-> alerts[i]])]
    /\ UNCHANGED <<readings, alerts, clock, batch, response, calls, random, selected,
                   workers, twilio, synth, live>>

\* self.save() of a loaded instance: UPDATE of every column WHERE id = self.id
save_alert(rows, instance) ==
    [j \in 1..Len(rows) |-> IF rows[j].id = instance.id THEN instance ELSE rows[j]]

AcknowledgeView(q, user) ==
    /\ requests[q] # Nothing
    /\ requests[q][1].method = "acknowledge"
    /\ alerts' = save_alert(alerts, acknowledge(requests[q][1].alert, user))
    /\ requests' = [requests EXCEPT ![q] = Nothing]
    /\ UNCHANGED <<readings, clock, batch, response, calls, random, selected,
                   workers, twilio, synth, live>>

ResolveView(q, user, notes) ==
    /\ requests[q] # Nothing
    /\ requests[q][1].method = "resolve"
    /\ alerts' = save_alert(alerts, resolve(requests[q][1].alert, user, notes))
    /\ requests' = [requests EXCEPT ![q] = Nothing]
    /\ UNCHANGED <<readings, clock, batch, response, calls, random, selected,
                   workers, twilio, synth, live>>

\* LossAlertViewSet.partial_update with {"status": status}
ApiPatchAlertStatus(i, status) ==
    /\ i \in 1..Len(alerts)
    /\ alerts' = [alerts EXCEPT ![i].status = status, ![i].updated_at = clock]
    /\ UNCHANGED <<readings, clock, batch, response, calls, random, selected, workers, twilio,
                   synth, requests, live>>

\* LossAlertViewSet.create with the body {reading, house, transformer, village,
\* district, alert_type, severity, status, title, description}: the serializer
\* leaves status writable, the loss columns take their defaults and the four
\* acknowledgement and resolution columns are read-only.  The caller names the
\* house of the reading.
ApiCreateAlert(i, alert_type, severity, status) ==
    /\ i \in 1..Len(readings)
    /\ Len(alerts) < MaxAlertsPosted
    /\ alerts' = Append(alerts,
          [id |-> MaxId(alerts) + 1, reading |-> readings[i].id,
           house |-> readings[i].house, transformer |-> readings[i].transformer,
           village |-> transformer_village(readings[i].transformer),
           district |-> village_district(transformer_village(readings[i].transformer)),
           alert_type |-> alert_type, severity |-> severity, status |-> status,
           voltage_loss |-> 0, voltage_loss_percentage |-> RInt(0),
           power_loss_kw |-> 0, power_loss_percentage |-> RInt(0),
           estimated_financial_loss |-> 0,
           acknowledged_by |-> None, acknowledged_at |-> Nothing,
           resolved_by |-> None, resolved_at |-> Nothing, resolution_notes |-> "",
           updated_at |-> clock])
    /\ UNCHANGED <<readings, clock, batch, response, calls, random, selected, workers, twilio,
                   synth, requests, live>>

-----------------------------------------------------------------------------
(* scripts/generate_live_data.py: MeterDataGenerator for the sample meter   *)
(* (agricultural, rated_voltage 230).  It stores MeterReading and Alert     *)
(* rows of the meters app; voltage, current and power are kept in 1/100,    *)
(* energy in 1/1000 kWh.  frequency, temperature and the alert's texts are  *)
(* left out.                                                                *)

\* self.hourly_load_profile, in percent
hourly_load_profile ==
    <<12, 10, 10, 12, 20, 35, 50, 60, 55, 45, 40, 50, 55, 45, 40, 45, 55, 70, 85, 90, 75,
      50, 25>>

\* get_base_load(hour): type_factors['agricultural'] * profile_factor, in W
get_base_load(hour) ==
    Frac(12000 * (IF hour = 0 THEN 15 ELSE hourly_load_profile[hour]), 100)

\* __init__: cumulative_energy = 0.0, and nothing stored yet
MeterDataGenerator == [cumulative_energy |-> RInt(0), readings |-> <<>>, alerts |-> <<>>]

anomaly_types ==
    <<"voltage_spike", "voltage_drop", "overcurrent", "phantom_load", "power_outage">>

\* One reading's draws: variation, voltage and power_factor are the three
\* random.uniform factors, anomaly is random.random() < anomaly_chance, choice
\* the index random.choices returns, and factor, standby and residual the
\* random.uniform draws of the branches of _inject_anomaly.
LiveDraw(anomaly, choice, factor) ==
    [variation |-> Frac(100, 100), voltage |-> Frac(95, 100), power_factor |-> Frac(95, 100),
     anomaly |-> anomaly, choice |-> choice, factor |-> factor,
     standby |-> RInt(200), residual |-> RInt(10)]

LiveDraws ==
    {LiveDraw(FALSE, 1, RInt(1)),
     LiveDraw(TRUE, 1, Frac(120, 100)),
     LiveDraw(TRUE, 2, Frac(80, 100)),
     LiveDraw(TRUE, 3, Frac(150, 100)),
     LiveDraw(TRUE, 4, RInt(1)),
     LiveDraw(TRUE, 5, RInt(1))}

LiveHours == {0, 5, 6, 22, 23}

\* _inject_anomaly(voltage, current, power, hour)
_inject_anomaly(voltage, current, power, hour, draw) ==
    CASE anomaly_types[draw.choice] = "voltage_spike" ->
           [anomaly_type |-> "voltage_spike", voltage |-> RMul(voltage, draw.factor),
            current |-> current, power |-> RMul(power, Frac(110, 100))]
      [] anomaly_types[draw.choice] = "voltage_drop" ->
           [anomaly_type |-> "voltage_drop", voltage |-> RMul(voltage, draw.factor),
            current |-> current, power |-> RMul(power, Frac(90, 100))]
      [] anomaly_types[draw.choice] = "overcurrent" ->
           [anomaly_type |-> "overcurrent", voltage |-> voltage,
            current |-> RMul(current, draw.factor), power |-> RMul(power, Frac(140, 100))]
      [] anomaly_types[draw.choice] = "phantom_load" ->
           IF 23 <= hour \/ hour <= 5
           THEN [anomaly_type |-> "phantom_load", voltage |-> voltage,
                 current |-> RDiv(draw.standby, voltage), power |-> draw.standby]
           ELSE [anomaly_type |-> "", voltage |-> voltage, current |-> current,
                 power |-> power]
      [] anomaly_types[draw.choice] = "power_outage" ->
           [anomaly_type |-> "power_outage", voltage |-> draw.residual,
            current |-> RInt(0), power |-> RInt(0)]

\* messages[anomaly_type] of _create_alert: severity and cost
live_alert(id, reading, anomaly_type) ==
    [id |-> id, reading |-> reading, alert_type |-> anomaly_type,
     severity |-> IF anomaly_type = "power_outage" THEN "emergency" ELSE "critical",
     estimated_cost_impact |->
         CASE anomaly_type = "voltage_spike" -> 200
           [] anomaly_type = "overcurrent" -> 300
           [] anomaly_type = "power_outage" -> 0]

\* MeterDataGenerator.generate_reading() at the given hour of the day: the
\* generator after the call, with the rows it stored.  is_anomaly is set to
\* True after _inject_anomaly returns, whatever anomaly_type it returned.
live_generate_reading(self, hour, draw) ==
    LET power == RMul(get_base_load(hour), draw.variation)
        voltage == RMul(RInt(230), draw.voltage)
        current == RDiv(power, RMul(voltage, draw.power_factor))
        cumulative_energy ==
            RAdd(self.cumulative_energy, RMul(RDiv(power, RInt(1000)), Frac(5, 60)))
        injected ==
            IF draw.anomaly
            THEN _inject_anomaly(voltage, current, power, hour, draw)
            ELSE [anomaly_type |-> "", voltage |-> voltage, current |-> current,
                  power |-> power]
        reading ==
            [id |-> Len(self.readings) + 1, hour |-> hour,
             voltage |-> Round(injected.voltage, 100),
             current |-> Round(injected.current, 100),
             power |-> Round(injected.power, 100),
             energy |-> Round(cumulative_energy, 1000),
             power_factor |-> Round(draw.power_factor, 1000),
             is_anomaly |-> draw.anomaly,
             anomaly_type |-> injected.anomaly_type]
    IN  [cumulative_energy |-> cumulative_energy,
         readings |-> Append(self.readings, reading),
         alerts |->
             IF draw.anomaly
                /\ injected.anomaly_type \in {"voltage_spike", "overcurrent", "power_outage"}
             THEN Append(self.alerts,
                         live_alert(Len(self.alerts) + 1, reading.id, injected.anomaly_type))
             ELSE self.alerts]

\* One iteration of generate_live_data's loop.
LiveReading(hour, draw) ==
    /\ Len(live.readings) < MaxLive
    /\ live' = live_generate_reading(live, hour, draw)
    /\ UNCHANGED <<readings, alerts, clock, batch, response, calls, random, selected,
                   workers, twilio, synth, requests>>

-----------------------------------------------------------------------------
(* notifications.services.TwilioService.  The Twilio client is outside the  *)
(* repository: messages.create either returns a message object with a sid   *)
(* and a status or raises, and which it does is an input of each send.      *)

NoService == [constructed |-> FALSE, client |-> None, call |-> Nothing,
              result |-> Nothing, messages |-> <<>>]

\* settings.TWILIO_ACCOUNT_SID / TWILIO_AUTH_TOKEN as configured
Credentials == {"", "AC1"}

\* TwilioService.__init__: a client only when both credentials are set.
TwilioService(account_sid, auth_token) ==
    [NoService EXCEPT !.constructed = TRUE,
                      !.client = IF account_sid # "" /\ auth_token # ""
                                 THEN "Client" ELSE None]

\* to_number arguments: a phone number, one already carrying the whatsapp:
\* prefix, and None.
Phone(prefix, number) == [prefix |-> prefix, number |-> number]
ToNumbers == {Phone("", "+919876543210"), Phone("whatsapp:", "+919876543210"),
              Phone("", None)}

\* What client.messages.create does in a send.
CreateOutcomes ==
    {[raises |-> None, sid |-> "SM123456789", status |-> "queued"],
     [raises |-> None, sid |-> "SM987654321", status |-> "sent"],
     [raises |-> "Twilio API Error", sid |-> None, status |-> None]}

Return(value, created) == [raised |-> None, value |-> value, created |-> created]
Raise(error) == [raised |-> error, value |-> None, created |-> <<>>]

\* send_whatsapp with the exception of the try block propagating.
send_whatsapp_uncaught(client, to_number, message, create) ==
    IF client = None
    THEN Return([success |-> FALSE, error |-> "Twilio not configured"], <<>>)
    ELSE IF to_number.number = None THEN Raise("AttributeError")
    ELSE IF create.raises # None THEN Raise(create.raises)
    ELSE Return([success |-> TRUE, message_sid |-> create.sid,
                 status |-> create.status, channel |-> "whatsapp"],
                <<[from_ |-> "whatsapp_from", body |-> message,
                   to |-> Phone("whatsapp:", to_number.number)]>>)

\* TwilioService.send_whatsapp(to_number, message): to_number.startswith raises
\* AttributeError for None, inside the try block.
send_whatsapp(client, to_number, message, create) ==
    IF client = None
    THEN Return([success |-> FALSE, error |-> "Twilio not configured"], <<>>)
    ELSE IF to_number.number = None
    THEN Return([success |-> FALSE, error |-> "AttributeError"], <<>>)
    ELSE IF create.raises # None
    THEN Return([success |-> FALSE, error |-> create.raises], <<>>)
    ELSE Return([success |-> TRUE, message_sid |-> create.sid,
                 status |-> create.status, channel |-> "whatsapp"],
                <<[from_ |-> "whatsapp_from", body |-> message,
                   to |-> Phone("whatsapp:", to_number.number)]>>)

\* TwilioService.send_sms(to_number, message)
send_sms(client, to_number, message, create) ==
    IF client = None
    THEN Return([success |-> FALSE, error |-> "Twilio not configured"], <<>>)
    ELSE IF create.raises # None
    THEN Return([success |-> FALSE, error |-> create.raises], <<>>)
    ELSE Return([success |-> TRUE, message_sid |-> create.sid,
                 status |-> create.status, channel |-> "sms"],
                <<[from_ |-> "sms_from", body |-> message, to |-> to_number]>>)

Construct(account_sid, auth_token) ==
    /\ ~twilio.constructed
    /\ twilio' = TwilioService(account_sid, auth_token)
    /\ UNCHANGED <<readings, alerts, clock, batch, response, calls, random, selected,
                   workers, synth, requests, live>>

SendWhatsapp(to_number, create) ==
    /\ twilio.constructed
    /\ Len(twilio.messages) < MaxSent
    /\ LET res == send_whatsapp(twilio.client, to_number, "Test message", create)
       IN  twilio' = [twilio EXCEPT
                         !.call = Some([method |-> "send_whatsapp",
                                        to_number |-> to_number, create |-> create]),
                         !.result = Some(res),
                         !.messages = @ \o res.created]
    /\ UNCHANGED <<readings, alerts, clock, batch, response, calls, random, selected,
                   workers, synth, requests, live>>

SendSms(to_number, create) ==
    /\ twilio.constructed
    /\ Len(twilio.messages) < MaxSent
    /\ LET res == send_sms(twilio.client, to_number, "Test message", create)
       IN  twilio' = [twilio EXCEPT
                         !.call = Some([method |-> "send_sms",
                                        to_number |-> to_number, create |-> create]),
                         !.result = Some(res),
                         !.messages = @ \o res.created]
    /\ UNCHANGED <<readings, alerts, clock, batch, response, calls, random, selected,
                   workers, synth, requests, live>>

-----------------------------------------------------------------------------
(* create_reading run by parallel workers, one cycle each, for distinct     *)
(* houses.  A worker's transaction.atomic block holds its inserts until it  *)
(* leaves the block; other connections see them from the commit on.  Row    *)
(* ids are uuid4 values drawn per row: the model numbers the rows in commit *)
(* order.                                                                   *)

NoTxn == [readings |-> <<>>, alerts |-> <<>>]

\* Leaving the transaction.atomic block of create_reading: the rows inserted
\* in it are committed, or rolled back when an exception leaves the block.
atomic_exit(txn, raised) == IF raised # None THEN NoTxn ELSE txn

\* The houses given to the workers, in the order of a sequential run.
WorkerHouses == {<<"h1", "h4">>, <<"h3", "h4">>, <<"h4", "h1">>}

StartWorkers(houses) ==
    /\ workers = <<>>
    /\ workers' = [w \in 1..Len(houses) |->
                      [pc |-> "ready", house |-> houses[w], draw |-> Nothing, ok |-> TRUE,
                       now |-> 0, txn |-> NoTxn, raised |-> None]]
    /\ UNCHANGED <<readings, alerts, clock, batch, response, calls, random, selected, twilio,
                   synth, requests, live>>

\* reading_data = self.generate_reading(house); ElectricityReading.objects.create
WorkerInsertReading(w, draw) ==
    /\ w \in 1..Len(workers)
    /\ workers[w].pc = "ready"
    /\ LET house == workers[w].house
           generated == generated_readings[<<house, None, draw>>]
       IN  workers' =
             [workers EXCEPT ![w] =
                IF generated.raised # None
                THEN [@ EXCEPT !.pc = "exiting", !.draw = Some(draw), !.now = clock,
                               !.raised = generated.raised]
                ELSE [@ EXCEPT !.pc = "inserted", !.draw = Some(draw), !.now = clock,
                               !.txn.readings =
                                  <<save(ElectricityReading(0, house,
                                            house_transformer(house),
                                            generated.reading_data, DefaultDerived,
                                            clock))>>]]
    /\ UNCHANGED <<readings, alerts, clock, batch, response, calls, random, selected, twilio,
                   synth, requests, live>>

\* if reading.is_anomaly: self._create_alert(reading)
WorkerCreateAlert(w, alert_insert_ok) ==
    /\ w \in 1..Len(workers)
    /\ workers[w].pc = "inserted"
    /\ LET reading == workers[w].txn.readings[1]
       IN  /\ ~reading.is_anomaly => alert_insert_ok
           /\ workers' =
                [workers EXCEPT ![w] =
                   IF ~reading.is_anomaly
                   THEN [@ EXCEPT !.pc = "exiting"]
                   ELSE IF alert_insert_ok
                   THEN [@ EXCEPT !.pc = "exiting",
                                  !.txn.alerts = <<_create_alert(0, reading)>>]
                   ELSE [@ EXCEPT !.pc = "exiting", !.ok = FALSE,
                                  !.raised = "DatabaseError"]]
    /\ UNCHANGED <<readings, alerts, clock, batch, response, calls, random, selected, twilio,
                   synth, requests, live>>

\* The end of the atomic block.
WorkerExit(w) ==
    /\ w \in 1..Len(workers)
    /\ workers[w].pc = "exiting"
    /\ LET rows == atomic_exit(workers[w].txn, workers[w].raised)
           rid == MaxId(readings) + 1
       IN  /\ readings' = readings \o [i \in 1..Len(rows.readings) |->
                                          [rows.readings[i] EXCEPT !.id = rid]]
           /\ alerts' = alerts \o [i \in 1..Len(rows.alerts) |->
                                      [rows.alerts[i] EXCEPT !.id = MaxId(alerts) + 1,
                                                             !.reading = rid]]
    /\ workers' = [workers EXCEPT ![w].pc = "done"]
    /\ UNCHANGED <<clock, batch, response, calls, random, selected, twilio, synth, requests,
                   live>>

-----------------------------------------------------------------------------
(* Specifications.                                                          *)

Init ==
    /\ readings = <<>>
    /\ alerts = <<>>
    /\ clock = 0
    /\ batch = Idle
    /\ response = NoResponse
    /\ calls = 0
    /\ random = [c |-> 0, e |-> 0]
    /\ selected = None
    /\ workers = <<>>
    /\ twilio = NoService
    /\ synth = Nothing
    /\ requests = [q \in 1..MaxRequests |-> Nothing]
    /\ live = MeterDataGenerator

\* The simulator's batches and the readings API.
Next ==
    \/ \E f \in SnapshotFilters : simulate_all_houses(f)
    \/ \E hours \in 0..MaxHours, houses \in HistoricalHouses :
          simulate_historical_data(hours, houses)
    \/ \E draw \in BatchDraws, ok \in BOOLEAN : Tick(draw, ok)
    \/ \E h \in {"h1", "h2"}, raw \in ApiRaws : ApiCreateReading(h, raw)
    \/ AdvanceClock

Spec == Init /\ [][Next]_vars

\* Saving readings with caller-supplied columns (the admin forms).
NextSave ==
    \/ \E raw \in AdminRaws, derived \in AdminDerived : AdminAddReading(raw, derived)
    \/ \E i \in 1..MaxSaved, raw \in AdminRaws, derived \in AdminDerived :
          AdminChangeReading(i, raw, derived)

SpecSave == Init /\ [][NextSave]_vars

\* The simulator's batches alone.
NextBatches ==
    \/ \E f \in SnapshotFilters : simulate_all_houses(f)
    \/ \E hours \in 0..MaxHours, houses \in HistoricalHouses :
          simulate_historical_data(hours, houses)
    \/ \E draw \in BatchDraws, ok \in BOOLEAN : Tick(draw, ok)
    \/ AdvanceClock

SpecBatches == Init /\ [][NextBatches]_vars

\* The simulator API's requests alone.
NextSnapshots ==
    \/ \E f \in SnapshotFilters : simulate_all_houses(f)
    \/ \E draw \in BatchDraws, ok \in BOOLEAN : Tick(draw, ok)
    \/ AdvanceClock

SpecSnapshots == Init /\ [][NextSnapshots]_vars

\* Single simulated readings of every scenario.
NextSample ==
    \/ \E h \in HouseSet, sc \in SampleScenarios, ok \in BOOLEAN :
          \E draw \in ScenarioDraws(sc) : generate_sample_reading(h, sc, draw, ok)
    \/ AdvanceClock

SpecSample == Init /\ [][NextSample]_vars

\* The lifecycle of the alerts of simulated readings.
LifecycleScenarios == {"normal", "high_loss", "theft"}

NextAlerts ==
    \/ \E sc \in LifecycleScenarios, ok \in BOOLEAN :
          \E draw \in ScenarioDraws(sc) : generate_sample_reading("h1", sc, draw, ok)
    \/ \E i \in 1..MaxSampled, u \in Users : Acknowledge(i, u)
    \/ \E i \in 1..MaxSampled, u \in Users, n \in Notes : Resolve(i, u, n)
    \/ \E i \in 1..MaxSampled, st \in AlertStatus : ApiPatchAlertStatus(i, st)
    \/ \E i \in 1..MaxSampled, st \in AlertStatus :
          ApiCreateAlert(i, "power_loss", "info", st)

SpecAlerts == Init /\ [][NextAlerts]_vars

\* Backfills of one house and of two, with the first alert acknowledged and
\* resolved while the backfill runs.
TickHouses == {Some(<<"h1">>), Some(<<"h1", "h4">>)}

NextTicks ==
    \/ \E hours \in 0..MaxHours, houses \in TickHouses :
          simulate_historical_data(hours, houses)
    \/ \E draw \in BatchDraws, ok \in BOOLEAN : Tick(draw, ok)
    \/ Acknowledge(1, "u1")
    \/ Resolve(1, "u1", "fixed")

SpecTicks == Init /\ [][NextTicks]_vars

\* What the system offers on a stored reading: the simulator, the detail routes
\* of the readings API, the alert lifecycle and the admin change form.
NextStored ==
    \/ \E sc \in LifecycleScenarios, ok \in BOOLEAN :
          \E draw \in ScenarioDraws(sc) : generate_sample_reading("h1", sc, draw, ok)
    \/ \E i \in 1..MaxSampled, raw \in ApiRaws : ApiUpdateReading(i, raw)
    \/ \E i \in 1..MaxSampled : ApiDestroyReading(i)
    \/ \E i \in 1..MaxSampled : Acknowledge(i, "u1")
    \/ \E i \in 1..MaxSampled : Resolve(i, "u1", "fixed")
    \/ \E i \in 1..MaxSampled, raw \in AdminRaws, derived \in AdminDerived :
          AdminChangeReading(i, raw, derived)

SpecStored == Init /\ [][NextStored]_vars

\* The same cycles run one after the other by the loop of simulate_all_houses
\* (for house in houses: reading = self.create_reading(house)), from worker w
\* on: an exception of create_reading leaves the loop.
RECURSIVE sequential_run(_, _, _)
sequential_run(w, rs, as) ==
    IF w > Len(workers) THEN [readings |-> rs, alerts |-> as]
    ELSE IF create_reading(rs, as, workers[w].now, workers[w].house, None, Nothing,
                           workers[w].draw[1], workers[w].ok).raised # None
    THEN [readings |-> rs, alerts |-> as]
    ELSE sequential_run(w + 1,
            create_reading(rs, as, workers[w].now, workers[w].house, None, Nothing,
                           workers[w].draw[1], workers[w].ok).readings,
            create_reading(rs, as, workers[w].now, workers[w].house, None, Nothing,
                           workers[w].draw[1], workers[w].ok).alerts)

\* Cycles for distinct houses run by parallel workers.
NextWorkers ==
    \/ \E houses \in WorkerHouses : StartWorkers(houses)
    \/ \E w \in 1..MaxWorkers, draw \in BatchDraws : WorkerInsertReading(w, draw)
    \/ \E w \in 1..MaxWorkers, ok \in BOOLEAN : WorkerCreateAlert(w, ok)
    \/ \E w \in 1..MaxWorkers : WorkerExit(w)
    \/ AdvanceClock

SpecWorkers == Init /\ [][NextWorkers]_vars

\* Sends through a TwilioService.
NextTwilio ==
    \/ \E account_sid \in Credentials, auth_token \in Credentials :
          Construct(account_sid, auth_token)
    \/ \E to_number \in ToNumbers, create \in CreateOutcomes :
          SendWhatsapp(to_number, create)
    \/ \E to_number \in ToNumbers, create \in CreateOutcomes :
          SendSms(to_number, create)

SpecTwilio == Init /\ [][NextTwilio]_vars

\* One synthesized and stored reading of every scenario, after earlier ones.
NextSynth ==
    \/ \E h \in HouseSet, sc \in SampleScenarios, ok \in BOOLEAN :
          \E draw \in ScenarioDraws(sc) : SynthesizeSample(h, sc, draw, ok)
    \/ \E sc \in LifecycleScenarios :
          \E draw \in ScenarioDraws(sc) : generate_sample_reading("h1", sc, draw, TRUE)
    \/ AdvanceClock

SpecSynth == Init /\ [][NextSynth]_vars

\* Acknowledge and resolve requests on the alerts of simulated readings.
NextRequests ==
    \/ \E draw \in ScenarioDraws("high_loss") :
          generate_sample_reading("h1", "high_loss", draw, TRUE)
    \/ \E q \in 1..MaxRequests, i \in 1..MaxSampled,
          method \in {"acknowledge", "resolve"} : GetObject(q, i, method)
    \/ \E q \in 1..MaxRequests, u \in Users : AcknowledgeView(q, u)
    \/ \E q \in 1..MaxRequests, u \in Users : ResolveView(q, u, "fixed")
    \/ AdvanceClock

SpecRequests == Init /\ [][NextRequests]_vars

\* The live generator script.
NextLive == \E hour \in LiveHours, draw \in LiveDraws : LiveReading(hour, draw)

SpecLive == Init /\ [][NextLive]_vars

\* Draws of random.random(): multiples of 2^-53 in [0, 1), taken around the
\* cumulative probabilities and between them.
DrawCentres == {0, 35, 70, 74, 78, 83, 88, 90, 93, 95, 97, 99, 100}
MaxOffset == 2400

RandomDraws ==
    {x \in [c : DrawCentres, e : -MaxOffset..MaxOffset] :
        /\ FloatMod(x, 800) = 0
        /\ x.c = 0 => x.e >= 0
        /\ x.c = 100 => x.e < 0}

\* rand = random.random() in _select_scenario
InitSelect ==
    /\ readings = <<>>
    /\ alerts = <<>>
    /\ clock = 0
    /\ batch = Idle
    /\ response = NoResponse
    /\ calls = 0
    /\ random \in RandomDraws
    /\ selected = None
    /\ workers = <<>>
    /\ twilio = NoService
    /\ synth = Nothing
    /\ requests = [q \in 1..MaxRequests |-> Nothing]
    /\ live = MeterDataGenerator

SelectScenario ==
    /\ selected = None
    /\ selected' = _select_scenario(random)
    /\ UNCHANGED <<readings, alerts, clock, batch, response, calls, random, workers, twilio,
                   synth, requests, live>>

\* _select_scenario over the draws.
NextSelect == SelectScenario

SpecSelect == InitSelect /\ [][NextSelect]_vars

-----------------------------------------------------------------------------
(* Properties of ElectricityReading.save(), checked under SpecSave.         *)

\* The classification rules of the specification on the columns a row holds.
ClassifiedStatus(r) ==
    IF r.voltage_received < LOW_VOLTAGE_THRESHOLD * VoltScale THEN "low_voltage"
    ELSE IF r.voltage_received > HIGH_VOLTAGE_THRESHOLD * VoltScale THEN "high_voltage"
    ELSE IF RGt(r.power_loss_percentage, THEFT_THRESHOLD) THEN "theft_suspected"
    ELSE IF RGt(r.power_loss_percentage, NORMAL_LOSS_THRESHOLD) THEN "loss_detected"
    ELSE "normal"

\* C1: every saved reading has the status of the first matching rule in the
\* order low_voltage (< 207 V), high_voltage (> 253 V), theft_suspected
\* (loss > 15 %), loss_detected (loss > 5 %), normal, with strict inequalities,
\* and is_anomaly is true exactly when the status is not normal.
C1_StatusPrecedence ==
    \A i \in 1..Len(readings) :
        /\ readings[i].status = ClassifiedStatus(readings[i])
        /\ readings[i].is_anomaly = (readings[i].status # "normal")

\* A saved reading below 207 V whose loss exceeds 15 % is low_voltage.
C1_Witness ==
    \E i \in 1..Len(readings) :
        /\ readings[i].voltage_received < LOW_VOLTAGE_THRESHOLD * VoltScale
        /\ RGt(readings[i].power_loss_percentage, THEFT_THRESHOLD)
        /\ readings[i].status = "low_voltage"
        /\ readings[i].is_anomaly

RawFields(r) ==
    <<r.voltage_sent, r.voltage_received, r.current_sent, r.current_received,
      r.power_sent_kw, r.power_received_kw, r.energy_sent_kwh, r.energy_received_kwh>>

DerivedFields(r) ==
    <<r.voltage_loss, r.voltage_loss_percentage, r.power_loss_kw,
      r.power_loss_percentage, r.energy_loss_kwh, r.status, r.is_anomaly>>

\* C3: the derived fields a save stores are a function of the raw fields only:
\* saving a row again with the same raw values, whatever derived values the
\* caller supplies, stores the same derived fields, and the three losses are
\* sent minus received.
C3_DerivedFromRawOnly ==
    [][\A i \in 1..Len(readings) :
          (i <= Len(readings') /\ RawFields(readings'[i]) = RawFields(readings[i]))
              => /\ DerivedFields(readings'[i]) = DerivedFields(readings[i])
                 /\ readings'[i].voltage_loss =
                        readings'[i].voltage_sent - readings'[i].voltage_received
                 /\ readings'[i].power_loss_kw =
                        readings'[i].power_sent_kw - readings'[i].power_received_kw
                 /\ readings'[i].energy_loss_kwh =
                        readings'[i].energy_sent_kwh - readings'[i].energy_received_kwh]_vars

\* C4: a saved reading with voltage_sent <= 0 stores voltage_loss_percentage 0,
\* and one with power_sent_kw <= 0 stores power_loss_percentage 0, whatever
\* percentage the object carried into the save.
C4_ZeroPercentageWhenNothingSent ==
    \A i \in 1..Len(readings) :
        /\ readings[i].voltage_sent <= 0 => readings[i].voltage_loss_percentage = RInt(0)
        /\ readings[i].power_sent_kw <= 0 => readings[i].power_loss_percentage = RInt(0)

-----------------------------------------------------------------------------
(* Properties of the alerts, checked under SpecSample and SpecAlerts.        *)

ReadingOf(alert) == CHOOSE r \in {readings[i] : i \in 1..Len(readings)} : r.id = alert.reading

\* The (alert_type, severity) precedence of the specification.
AlertTypeSeverity(status, power_loss_percentage) ==
    IF status = "theft_suspected" \/ RGt(power_loss_percentage, 15)
    THEN <<"theft_suspected", "critical">>
    ELSE IF status = "low_voltage" THEN <<"voltage_drop", "warning">>
    ELSE IF status = "high_voltage" THEN <<"equipment_fault", "warning">>
    ELSE IF status = "equipment_fault" THEN <<"equipment_fault", "critical">>
    ELSE IF RGt(power_loss_percentage, 10) THEN <<"power_loss", "warning">>
    ELSE <<"power_loss", "info">>

\* C5: the alert of an anomalous reading has the (alert_type, severity) of the
\* first matching rule: theft_suspected status or loss > 15 % -> theft_suspected /
\* critical; low_voltage -> voltage_drop / warning; high_voltage ->
\* equipment_fault / warning; equipment_fault -> equipment_fault / critical;
\* loss > 10 % -> power_loss / warning; otherwise power_loss / info.
C5_AlertTypePrecedence ==
    \A j \in 1..Len(alerts) :
        LET reading == ReadingOf(alerts[j])
        IN  /\ reading.is_anomaly
            /\ <<alerts[j].alert_type, alerts[j].severity>> =
                   AlertTypeSeverity(reading.status, reading.power_loss_percentage)

\* A low_voltage reading whose power loss exceeds 15 % has a
\* theft_suspected / critical alert.
C5_Witness ==
    \E j \in 1..Len(alerts) :
        /\ ReadingOf(alerts[j]).status = "low_voltage"
        /\ RGt(ReadingOf(alerts[j]).power_loss_percentage, 15)
        /\ alerts[j].alert_type = "theft_suspected"
        /\ alerts[j].severity = "critical"

\* C6: resolved and false_alarm are terminal: an acknowledge or a resolve of an
\* alert whose status is resolved or false_alarm leaves its status as it was.
C6_TerminalStates ==
    [][\A i \in 1..Len(alerts) :
          (/\ alerts[i].status \in {"resolved", "false_alarm"}
           /\ \/ \E u \in Users : Acknowledge(i, u)
              \/ \E u \in Users, n \in Notes : Resolve(i, u, n))
              => alerts'[i].status = alerts[i].status]_vars

-----------------------------------------------------------------------------
(* Properties of the simulator's batches and the readings API, checked      *)
(* under Spec.                                                              *)

AlertsOf(reading) == {j \in 1..Len(alerts) : alerts[j].reading = reading.id}

\* C2: in every state of the store, a reading with is_anomaly true has exactly
\* one LossAlert referencing it and a reading with is_anomaly false has none.
C2_AnomalyHasOneAlert ==
    \A i \in 1..Len(readings) :
        Cardinality(AlertsOf(readings[i])) = IF readings[i].is_anomaly THEN 1 ELSE 0

\* C7: when create_reading fails at creating the alert of an anomalous reading,
\* the reading that triggered it is persisted all the same.
C7_ReadingSurvivesAlertFailure ==
    [][(/\ batch.kind # "idle"
        /\ response' # response
        /\ response'.outcome = "raised"
        /\ response'.error = "DatabaseError")
          => /\ Len(readings') = Len(readings) + 1
             /\ readings'[Len(readings')].house = Head(batch.queue).house
             /\ readings'[Len(readings')].is_anomaly]_vars

\* C8: a tick's failure does not stop a snapshot or historical batch: while
\* ticks remain the batch goes on to the next one, and the batch ends by
\* returning its result, never by raising.
C8_BatchContinuesAfterFailure ==
    [][batch.kind # "idle" =>
          /\ Len(batch.queue) > 1 =>
                \/ batch' = batch
                \/ batch'.kind = batch.kind /\ batch'.queue = Tail(batch.queue)
          /\ batch'.kind = "idle" => response'.outcome = "returned"]_vars

\* C9: an endpoint whose transformer has output_voltage <= 0 is never given a
\* reading or an alert, its tick does not raise out of the batch, and a snapshot
\* that returns has given every other endpoint of the batch a reading.
C9_NonPositiveVoltageRejected ==
    /\ \A i \in 1..Len(readings) : output_voltage(readings[i].transformer) > 0
    /\ \A j \in 1..Len(alerts) : output_voltage(alerts[j].transformer) > 0
    /\ response.error # ZeroDivisionError
    /\ (response.kind = "snapshot" /\ response.outcome = "returned") =>
          \A k \in 1..Len(response.houses) :
              output_voltage(house_transformer(response.houses[k])) > 0 =>
                  \E i \in 1..Len(readings) :
                      /\ readings[i].id \in {response.readings[m] :
                                                m \in 1..Len(response.readings)}
                      /\ readings[i].house = response.houses[k]

\* C10: simulate_historical_data(hours = H, houses = S) returns H x |S| distinct
\* persisted readings, the reading of hour h and the i-th house of S at position
\* h * |S| + i, stamped now - (H - h) hours, which is before now.
C10_HistoricalBackfill ==
    response.kind = "historical" =>
        /\ response.outcome = "returned"
        /\ Len(response.readings) = response.hours * Len(response.houses)
        /\ \A m, n \in 1..Len(response.readings) :
              response.readings[m] = response.readings[n] => m = n
        /\ \A hour \in 0..(response.hours - 1), k \in 1..Len(response.houses) :
              \E i \in 1..Len(readings) :
                  /\ readings[i].id = response.readings[hour * Len(response.houses) + k]
                  /\ readings[i].house = response.houses[k]
                  /\ readings[i].reading_timestamp =
                         response.now - (response.hours - hour)
                  /\ readings[i].reading_timestamp < response.now

-----------------------------------------------------------------------------
(* Properties of snapshot and historical batches, checked under SpecBatches. *)

\* C11: after any sequence of snapshot and historical-backfill calls, no two
\* readings share the same house and the same reading_timestamp.
C11_OneReadingPerHouseAndTimestamp ==
    \A i, j \in 1..Len(readings) :
        (/\ readings[i].house = readings[j].house
         /\ readings[i].reading_timestamp = readings[j].reading_timestamp) => i = j

\* Whether house h is under the node named by the most specific filter of f.
UnderMostSpecificNode(f, h) ==
    IF f.transformer # None THEN house_transformer(h) = f.transformer
    ELSE IF f.village # None THEN transformer_village(house_transformer(h)) = f.village
    ELSE IF f.district # None
    THEN village_district(transformer_village(house_transformer(h))) = f.district
    ELSE IF f.company # None
    THEN district_company(village_district(transformer_village(house_transformer(h))))
             = f.company
    ELSE TRUE

ReturnedFor(h) ==
    {m \in 1..Len(response.readings) :
        \E i \in 1..Len(readings) :
            readings[i].id = response.readings[m] /\ readings[i].house = h}

\* C12: a snapshot applies only the most specific filter given (transformer over
\* village over district over company) and creates exactly one reading for every
\* active, connected house under that node and none for any other house.
C12_MostSpecificFilter ==
    response.kind = "snapshot" =>
        /\ response.outcome = "returned"
        /\ \A h \in HouseSet :
              Cardinality(ReturnedFor(h)) =
                  IF /\ is_active(h)
                     /\ connection_status(h) = "active"
                     /\ UnderMostSpecificNode(response.filter, h)
                  THEN 1 ELSE 0

\* C13: no simulator entry point creates a reading for a house that is not
\* active or whose connection_status is not active.
C13_OnlyEligibleHousesSimulated ==
    \A i \in 1..Len(readings) :
        is_active(readings[i].house) /\ connection_status(readings[i].house) = "active"

NoEligibleHouse(f) ==
    \A h \in HouseSet :
        ~(/\ is_active(h)
          /\ connection_status(h) = "active"
          /\ UnderMostSpecificNode(f, h))

\* C14: a snapshot whose filter resolves to no eligible house (a node without
\* houses, or with inactive or disconnected houses only) returns an empty result
\* without raising and leaves the readings and the alerts as they were.
C14_EmptySnapshot ==
    [][(/\ calls' # calls
        /\ IF batch'.kind = "idle"
           THEN response'.kind = "snapshot" /\ NoEligibleHouse(response'.filter)
           ELSE batch'.kind = "snapshot" /\ NoEligibleHouse(batch'.filter))
          => /\ batch'.kind = "idle"
             /\ response'.outcome = "returned"
             /\ response'.readings = <<>>
             /\ readings' = readings
             /\ alerts' = alerts]_vars

\* A snapshot of a transformer whose only house is inactive has returned empty.
C14_Witness ==
    /\ response.kind = "snapshot"
    /\ response.filter.transformer = "t6"
    /\ response.outcome = "returned"
    /\ response.readings = <<>>
    /\ readings = <<>>
    /\ alerts = <<>>

RawSentReceived(r) ==
    <<r.voltage_sent, r.voltage_received, r.power_sent_kw, r.power_received_kw>>

AlertTypesOf(r) ==
    {<<alerts[j].alert_type, alerts[j].severity>> : j \in AlertsOf(r)}

\* C15: two readings persisted with the same voltage_sent, voltage_received,
\* power_sent_kw and power_received_kw have the same status and is_anomaly (and
\* the same kind of alert), whichever scenario the synthesizer used for each,
\* and no reading or alert stores the scenario label or the expected status.
C15_ScenarioAgnosticClassification ==
    /\ \A i, j \in 1..Len(readings) :
          RawSentReceived(readings[i]) = RawSentReceived(readings[j])
              => /\ readings[i].status = readings[j].status
                 /\ readings[i].is_anomaly = readings[j].is_anomaly
                 /\ AlertTypesOf(readings[i]) = AlertTypesOf(readings[j])
    /\ \A i \in 1..Len(readings) :
          {"scenario", "expected_status"} \cap DOMAIN readings[i] = {}
    /\ \A j \in 1..Len(alerts) :
          {"scenario", "expected_status"} \cap DOMAIN alerts[j] = {}

\* Two readings of one house with the same raw values, which a draw expecting
\* normal and a draw expecting equipment_fault both synthesize.
C15_Witness ==
    \E i, j \in 1..Len(readings) :
        /\ i # j
        /\ RawSentReceived(readings[i]) = RawSentReceived(readings[j])
        /\ readings[i].status = "normal"
        /\ \E d1, d2 \in BatchDraws :
              LET g1 == generated_readings[<<readings[i].house, None, d1>>].reading_data
                  g2 == generated_readings[<<readings[j].house, None, d2>>].reading_data
              IN  /\ RawSentReceived(g1) = RawSentReceived(readings[i])
                  /\ RawSentReceived(g2) = RawSentReceived(readings[j])
                  /\ g1.expected_status = "normal"
                  /\ g2.expected_status = "equipment_fault"

RECURSIVE CumulativePercent(_)
CumulativePercent(i) == IF i = 0 THEN 0 ELSE CumulativePercent(i - 1) + SCENARIOS[i][2]

RECURSIVE float_cumulative(_)
float_cumulative(i) ==
    IF i = 0 THEN [c |-> 0, e |-> 0]
    ELSE float_add(float_cumulative(i - 1), float_literal(SCENARIOS[i][2]))

\* The first scenario, in table order, whose exact cumulative probability is
\* at least r.
FirstAtLeast(r) ==
    LET matching == {i \in 1..Len(SCENARIOS) :
                        float_le(r, [c |-> CumulativePercent(i), e |-> 0])}
    IN  IF matching = {} THEN None
        ELSE SCENARIOS[CHOOSE i \in matching : \A j \in matching : i <= j][1]

\* C16: for every draw r in [0, 1), _select_scenario returns the first scenario
\* in the order normal, low_voltage, high_loss, theft, equipment_fault,
\* line_fault whose cumulative probability (0.70, 0.78, 0.88, 0.93, 0.97, 1.00)
\* is >= r; the result is one of the six labels, the probabilities sum to 1 so
\* that every draw matches a table entry, and the fallback result is normal.
C16_FirstScenarioAtLeastDraw ==
    selected # None =>
        /\ [i \in 1..Len(SCENARIOS) |-> SCENARIOS[i][1]]
             = <<"normal", "low_voltage", "high_loss", "theft",
                 "equipment_fault", "line_fault">>
        /\ [i \in 1..Len(SCENARIOS) |-> CumulativePercent(i)]
             = <<70, 78, 88, 93, 97, 100>>
        /\ selected = FirstAtLeast(random)
        /\ selected \in {SCENARIOS[i][1] : i \in 1..Len(SCENARIOS)}
        /\ float_cumulative(Len(SCENARIOS)) = [c |-> 100, e |-> 0]
        /\ float_le(random, float_cumulative(Len(SCENARIOS)))
        /\ select_from(random, Len(SCENARIOS) + 1,
                       float_cumulative(Len(SCENARIOS))) = "normal"

\* The largest draw not above 0.78, which is the double the code's cumulative
\* sum 0.7 + 0.08 evaluates to, selects low_voltage.
C16_Witness ==
    /\ selected = "low_voltage"
    /\ random = float_cumulative(2)
    /\ random.c = 78 /\ random.e < 0


AlertsOfHouse(as, h) == {j \in 1..Len(as) : as[j].house = h}
AnomaliesOfHouse(rs, h) == {i \in 1..Len(rs) : rs[i].house = h /\ rs[i].is_anomaly}

\* C17: alerts are never deduplicated: a simulator tick that creates an
\* anomalous reading for a house creates a new, separate alert for it whatever
\* alerts the house already has and in whatever status, and changes no existing
\* alert; after every step each house has as many alerts as anomalous simulated
\* readings.
C17_NoDeduplication ==
    [][/\ \A h \in HouseSet :
             Cardinality(AlertsOfHouse(alerts', h))
               = Cardinality(AnomaliesOfHouse(readings', h))
       /\ (Len(readings') > Len(readings) /\ readings'[Len(readings')].is_anomaly) =>
             /\ Len(alerts') = Len(alerts) + 1
             /\ alerts'[Len(alerts')].reading = readings'[Len(readings')].id
             /\ alerts'[Len(alerts')].house = readings'[Len(readings')].house
             /\ \A j \in 1..Len(alerts) :
                   /\ alerts'[j] = alerts[j]
                   /\ alerts'[j].id # alerts'[Len(alerts')].id]_vars

\* A house whose first alert is resolved has a second, active alert for its
\* second anomalous reading.
C17_Witness ==
    /\ Len(alerts) >= 2
    /\ alerts[1].house = "h1" /\ alerts[2].house = "h1"
    /\ alerts[1].reading # alerts[2].reading
    /\ alerts[1].status = "resolved"
    /\ alerts[2].status = "active"
    /\ Cardinality(AnomaliesOfHouse(readings, "h1")) = 2

C19_AlertCreatedActiveForAnomaly ==
    [][Len(alerts') > Len(alerts) =>
          LET alert == alerts'[Len(alerts')]
          IN  /\ alert.status = "active"
              /\ alert.acknowledged_by = None /\ alert.acknowledged_at = Nothing
              /\ alert.resolved_by = None /\ alert.resolved_at = Nothing
              /\ \E i \in 1..Len(readings') :
                    readings'[i].id = alert.reading /\ readings'[i].is_anomaly]_vars

FreshReading(id, house, timestamp, draw) ==
    [create_reading(<<>>, <<>>, 0, house, None, Some(timestamp), draw, TRUE).reading
        EXCEPT !.id = id]

\* C21: each simulation cycle is independent of earlier cycles: the reading a
\* tick stores is the one the same house and draws give on an empty store,
\* whatever readings and alerts the store holds, and energy is a one-hour
\* increment: every simulated reading has energy_sent_kwh = power_sent_kw and
\* energy_received_kwh = power_received_kw.
C21_CycleIndependent ==
    [][/\ Len(readings') > Len(readings) =>
            LET r == readings'[Len(readings')]
            IN  \E draw \in BatchDraws :
                    r = FreshReading(r.id, r.house, r.reading_timestamp, draw)
       /\ \A i \in 1..Len(readings') :
            /\ readings'[i].energy_sent_kwh = readings'[i].power_sent_kw
            /\ readings'[i].energy_received_kwh = readings'[i].power_received_kw]_vars

\* A second reading of a house, stored after a first one and an alert, with a
\* positive energy increment.
C21_Witness ==
    /\ Len(readings) >= 2 /\ Len(alerts) >= 1
    /\ readings[1].house = readings[2].house
    /\ readings[1].energy_sent_kwh > 0
    /\ readings[2].energy_sent_kwh = readings[2].power_sent_kw
    /\ readings[2].energy_sent_kwh > 0

WithoutId(rs) == {[rs[i] EXCEPT !.id = 0] : i \in 1..Len(rs)}

AllWorkersDone == workers # <<>> /\ \A w \in 1..Len(workers) : workers[w].pc = "done"

\* A cycle's reading and its alert become visible in one step, or not at all.
CommittedAsPair ==
    /\ \A i \in 1..Len(readings) : i <= Len(readings') /\ readings'[i] = readings[i]
    /\ \A j \in 1..Len(alerts) : j <= Len(alerts') /\ alerts'[j] = alerts[j]
    /\ Len(readings') <= Len(readings) + 1
    /\ \A i \in 1..Len(readings') :
          Cardinality({j \in 1..Len(alerts') : alerts'[j].reading = readings'[i].id})
            = IF readings'[i].is_anomaly THEN 1 ELSE 0
    /\ \A j \in 1..Len(alerts') : \E i \in 1..Len(readings') :
          alerts'[j].reading = readings'[i].id

\* A step of a worker writes that worker's cycle only.
OwnCycleOnly ==
    workers # <<>> =>
        Cardinality({w \in 1..Len(workers) : workers'[w] # workers[w]}) <= 1

\* C22: cycles for distinct houses run by parallel workers: under every
\* interleaving a cycle's reading and alert are committed together or not at
\* all, no cycle writes what another cycle reads or writes, and when all are
\* done the store holds the same readings, each anomalous one with exactly one
\* alert, as the sequential run of the same cycles.
C22_ParallelAsSequential ==
    /\ [][CommittedAsPair /\ OwnCycleOnly]_vars
    /\ [](AllWorkersDone =>
             /\ WithoutId(readings) = WithoutId(sequential_run(1, <<>>, <<>>).readings)
             /\ Len(alerts) = Len(sequential_run(1, <<>>, <<>>).alerts))

\* The part of C22 that does not compare with the sequential run.
IsolatedCycles == [][CommittedAsPair /\ OwnCycleOnly]_vars

\* C23: send_whatsapp and send_sms never raise: without a configured client,
\* or when the message-create call (or anything else in the try block) fails,
\* they return success = false with an error field; when the call succeeds they
\* return success = true with the message's sid and status.
C23_SendNeverRaises ==
    twilio.result # Nothing =>
        LET res == twilio.result[1]
            call == twilio.call[1]
            fails == \/ twilio.client = None
                     \/ call.create.raises # None
                     \/ call.method = "send_whatsapp" /\ call.to_number.number = None
        IN  /\ res.raised = None
            /\ res.value.success = ~fails
            /\ fails => /\ DOMAIN res.value = {"success", "error"}
                        /\ res.value.error # None
                        /\ res.created = <<>>
            /\ ~fails => /\ res.value.message_sid = call.create.sid
                         /\ res.value.status = call.create.status

\* A send whose message-create call raised returned a failure result.
C23_Witness ==
    /\ twilio.result # Nothing
    /\ twilio.client # None
    /\ twilio.call[1].method = "send_whatsapp"
    /\ twilio.call[1].create.raises # None
    /\ twilio.result[1].value.success = FALSE
    /\ Len(twilio.messages) = 1

\* The scenario table: the factors applied to the sent voltage and to the base
\* current, for the draws loss, u (draw.v) and the equipment-fault factors
\* (draw.v, draw.c), and the distance of the house's line.
TableFactors(scenario, house, draw) ==
    LET distance == houses_count(house_transformer(house)) * 50 + draw.dist
        scaled == RMul(draw.loss, RAdd(RInt(1), Frac(distance, 10000)))
        less(k, l) == RSub(RInt(1), RMul(Frac(k, 10), l))
    IN  CASE scenario = "low_voltage" -> <<less(10, draw.loss), Frac(105, 100)>>
          [] scenario = "high_loss" -> <<less(4, draw.loss), less(6, draw.loss)>>
          [] scenario = "theft" -> <<less(10, draw.v), less(10, draw.loss)>>
          [] scenario = "equipment_fault" -> <<draw.v, draw.c>>
          [] scenario = "line_fault" -> <<less(6, scaled), less(4, scaled)>>
          [] OTHER -> <<less(3, draw.loss), less(1, draw.loss)>>

\* lo <= x <= hi
Between(lo, x, hi) == lo.n * x.d <= x.n * lo.d /\ x.n * hi.d <= hi.n * x.d

SynthesizedReading ==
    CHOOSE r \in {readings[i] : i \in 1..Len(readings)} : r.id = synth[1].reading

\* C24: for every scenario and draw the synthesizer sets voltage_sent to the
\* transformer's output_voltage, the base current to connected_load_kw x 1000 /
\* voltage_sent, and the received voltage and current to the sent voltage and
\* the base current times the factors of the scenario table (stored to two
\* decimals); a label that is no scenario is synthesized as normal.
C24_ScenarioTable ==
    (synth # Nothing /\ synth[1].stored) =>
        LET house == synth[1].house
            r == SynthesizedReading
            sent == Frac(output_voltage(house_transformer(house)), VoltScale)
            base == RDiv(Frac(connected_load_kw(house) * 1000, 100), sent)
            factors == TableFactors(synth[1].scenario, house, synth[1].draw)
        IN  /\ r.house = house
            /\ r.voltage_sent = output_voltage(house_transformer(house))
            /\ r.current_sent = Round(base, VoltScale)
            /\ r.voltage_received = Round(RMul(sent, factors[1]), VoltScale)
            /\ r.current_received = Round(RMul(base, factors[2]), VoltScale)
            /\ synth[1].scenario = "theft" =>
                  Between(Frac(2, 100), synth[1].draw.v, Frac(5, 100))
            /\ synth[1].scenario = "equipment_fault" =>
                  /\ Between(Frac(85, 100), synth[1].draw.v, Frac(105, 100))
                  /\ Between(Frac(70, 100), synth[1].draw.c, Frac(120, 100))

\* A high-loss reading synthesized with a 14 % loss draw: 230 V x (1 - 0.056).
C24_Witness ==
    /\ synth # Nothing /\ synth[1].stored
    /\ synth[1].scenario = "high_loss"
    /\ synth[1].draw.loss = Frac(14, 100)
    /\ SynthesizedReading.voltage_sent = 23000
    /\ SynthesizedReading.voltage_received = 21712

StatusBuckets ==
    {"normal", "low_voltage", "high_voltage", "loss_detected", "theft_suspected"}

\* C25: the scenario's expected_status and the persisted status can differ:
\* the persisted status is a bucket of the stored values, whatever the
\* scenario, and a reading synthesized under equipment_fault with voltage and
\* current factors close to 1 is persisted with status normal, is_anomaly false
\* and no alert.
C25_ExpectedStatusCanDiverge ==
    (synth # Nothing /\ synth[1].stored) =>
        LET r == SynthesizedReading
            draw == synth[1].draw
        IN  /\ r.status = ClassifiedStatus(r)
            /\ r.status \in StatusBuckets
            /\ (/\ synth[1].scenario = "equipment_fault"
                /\ output_voltage(house_transformer(synth[1].house)) > 0
                /\ Between(Frac(98, 100), draw.v, Frac(102, 100))
                /\ Between(Frac(98, 100), draw.c, RInt(1))) =>
                    /\ generated_readings[<<synth[1].house, "equipment_fault", draw>>]
                          .reading_data.expected_status = "equipment_fault"
                    /\ r.status = "normal"
                    /\ ~r.is_anomaly
                    /\ AlertsOf(r) = {}

\* An equipment_fault reading with factors 0.985 and 0.995, stored as normal.
C25_Witness ==
    /\ synth # Nothing /\ synth[1].stored
    /\ synth[1].scenario = "equipment_fault"
    /\ synth[1].draw.v = Frac(985, 1000) /\ synth[1].draw.c = Frac(995, 1000)
    /\ SynthesizedReading.status = "normal"
    /\ ~SynthesizedReading.is_anomaly
    /\ alerts = <<>>

\* C26: every alert the simulator creates copies the context of the reading
\* that triggered it: its house and transformer, the transformer's village,
\* the village's district, and the reading's voltage_loss,
\* voltage_loss_percentage, power_loss_kw and power_loss_percentage.
C26_AlertCopiesReading ==
    \A j \in 1..Len(alerts) :
        /\ \E i \in 1..Len(readings) : readings[i].id = alerts[j].reading
        /\ LET reading == ReadingOf(alerts[j])
           IN  /\ alerts[j].house = reading.house
               /\ alerts[j].transformer = reading.transformer
               /\ alerts[j].transformer = house_transformer(reading.house)
               /\ alerts[j].village = transformer_village(reading.transformer)
               /\ alerts[j].district = village_district(alerts[j].village)
               /\ alerts[j].voltage_loss = reading.voltage_loss
               /\ alerts[j].voltage_loss_percentage = reading.voltage_loss_percentage
               /\ alerts[j].power_loss_kw = reading.power_loss_kw
               /\ alerts[j].power_loss_percentage = reading.power_loss_percentage

\* An alert of a reading whose two loss percentages differ, in another village
\* and district than the first.
C26_Witness ==
    \E j \in 1..Len(alerts) :
        /\ alerts[j].house = "h4" /\ alerts[j].village = "v3"
        /\ alerts[j].district = "d2"
        /\ alerts[j].voltage_loss_percentage # alerts[j].power_loss_percentage
        /\ alerts[j].power_loss_kw > 0


\* C27: an acknowledge request changes, of the stored alert it names, only
\* status (to acknowledged), acknowledged_by and acknowledged_at; a resolve
\* request changes only status (to resolved), resolved_by, resolved_at and
\* resolution_notes; every other column of that alert, every other alert and
\* every reading are as they were before the request's save.
C27_AcknowledgeResolveFrame ==
    [][\A q \in 1..MaxRequests :
          (requests[q] # Nothing /\ requests'[q] = Nothing) =>
             /\ readings' = readings
             /\ Len(alerts') = Len(alerts)
             /\ \A j \in 1..Len(alerts) :
                   IF alerts[j].id # requests[q][1].alert.id
                   THEN alerts'[j] = alerts[j]
                   ELSE IF requests[q][1].method = "acknowledge"
                   THEN /\ alerts'[j].status = "acknowledged"
                        /\ alerts'[j].acknowledged_by \in Users
                        /\ alerts'[j].acknowledged_at = Some(clock)
                        /\ alerts'[j] = [alerts[j] EXCEPT
                              !.status = alerts'[j].status,
                              !.acknowledged_by = alerts'[j].acknowledged_by,
                              !.acknowledged_at = alerts'[j].acknowledged_at]
                   ELSE /\ alerts'[j].status = "resolved"
                        /\ alerts'[j].resolved_by \in Users
                        /\ alerts'[j].resolved_at = Some(clock)
                        /\ alerts'[j].resolution_notes = "fixed"
                        /\ alerts'[j] = [alerts[j] EXCEPT
                              !.status = alerts'[j].status,
                              !.resolved_by = alerts'[j].resolved_by,
                              !.resolved_at = alerts'[j].resolved_at,
                              !.resolution_notes = alerts'[j].resolution_notes]]_vars


\* C28: when a simulator API request ends, a success response reports
\* readings_generated = the readings this request persisted and
\* alerts_created = anomalies_detected = the alerts this request persisted;
\* an error response has status error and HTTP 400, carries no count, and the
\* readings and alerts of the ticks before the failing one are still stored.
C28_SimulatorResponseCounts ==
    [][(batch.kind = "snapshot" /\ batch'.kind = "idle") =>
          LET body == post(readings', response')
              persisted_readings == Len(readings') - batch.base.readings
              persisted_alerts == Len(alerts') - batch.base.alerts
          IN  IF response'.outcome = "returned"
              THEN /\ body.status = "success"
                   /\ body.readings_generated = persisted_readings
                   /\ body.anomalies_detected = persisted_alerts
                   /\ body.alerts_created = persisted_alerts
              ELSE /\ body.status = "error" /\ body.http = 400
                   /\ DOMAIN body = {"status", "http", "message"}
                   /\ persisted_readings = Len(batch.out)
                   /\ \A i \in 1..Len(batch.out) :
                         \E k \in 1..Len(readings') : readings'[k].id = batch.out[i]
                   /\ persisted_alerts = anomalies(readings', batch.out)]_vars

\* A request that succeeded with one anomalous reading and its alert.
C28_Witness ==
    /\ response.kind = "snapshot"
    /\ response.outcome = "returned"
    /\ batch.kind = "idle"
    /\ post(readings, response).readings_generated = 1
    /\ post(readings, response).alerts_created = 1
    /\ Len(readings) = 1
    /\ Len(alerts) = 1


\* C29: in the live generator, every stored reading with is_anomaly = TRUE has
\* an anomaly_type among the five anomaly types (a phantom_load drawn outside
\* the night hours is cancelled), phantom_load is stored only at hours 23 and
\* 0..5, a reading has an alert exactly if it is anomalous of type
\* voltage_spike, overcurrent or power_outage, and the stored energy never
\* decreases from one reading to the next.
C29_LiveAnomalies ==
    /\ \A i \in 1..Len(live.readings) :
          LET r == live.readings[i]
          IN  /\ r.is_anomaly =>
                    r.anomaly_type \in {anomaly_types[k] : k \in 1..Len(anomaly_types)}
              /\ r.anomaly_type = "phantom_load" => (r.hour = 23 \/ r.hour \in 0..5)
              /\ Cardinality({j \in 1..Len(live.alerts) : live.alerts[j].reading = r.id})
                   = IF r.is_anomaly /\ r.anomaly_type \in
                                           {"voltage_spike", "overcurrent", "power_outage"}
                     THEN 1 ELSE 0
    /\ \A i \in 1..Len(live.readings) - 1 :
          live.readings[i].energy <= live.readings[i + 1].energy


\* The stored reading an alert refers to.
ReadingOfAlert(a) == readings[CHOOSE i \in 1..Len(readings) : readings[i].id = a.reading]

\* C30: no stored reading has status equipment_fault, no alert is
\* (equipment_fault, critical), every alert of type equipment_fault has
\* severity warning and the reading it refers to is high_voltage with a power
\* loss of at most 15%, and every alert of type power_loss refers to a
\* loss_detected reading with a power loss above 5% and at most 15%.
C30_EquipmentFaultCriticalUnreachable ==
    /\ \A i \in 1..Len(readings) : readings[i].status # "equipment_fault"
    /\ \A j \in 1..Len(alerts) :
          /\ alerts[j].alert_type = "equipment_fault" =>
                /\ alerts[j].severity = "warning"
                /\ ReadingOfAlert(alerts[j]).status = "high_voltage"
                /\ ~RGt(ReadingOfAlert(alerts[j]).power_loss_percentage, 15)
          /\ alerts[j].alert_type = "power_loss" =>
                /\ ReadingOfAlert(alerts[j]).status = "loss_detected"
                /\ RGt(ReadingOfAlert(alerts[j]).power_loss_percentage, 5)
                /\ ~RGt(ReadingOfAlert(alerts[j]).power_loss_percentage, 15)

====
